---- MODULE Spec2Model ----
(***************************************************************************)
(* Model of the api-recommender backend: the per-turn dialogue pipeline of *)
(* ChatService.ProcessMessage (src/chat_service.go) and the classifier,    *)
(* slot extractor, follow-up composer and recommendation engine of package *)
(* recommend (src/recommend/recommend.go).                                 *)
(*                                                                         *)
(* Go strings are TLA+ strings: TLC evaluates Len, \o and SubSeq on them,  *)
(* so strings.Contains, strings.Index, strings.Fields, ... are computed on *)
(* the text itself.  The text generator (llms.GenerateFromSinglePrompt) is *)
(* the environment: each call either fails or returns some text.           *)
(***************************************************************************)
EXTENDS Integers, Sequences, FiniteSets, TLC

\* ------------------------------------------------------------------------
\* Package strings
\* ------------------------------------------------------------------------

CharAt(s, i) == SubSeq(s, i, i)

\* strings.HasPrefix(SubSeq(s, i, Len(s)), sub), for 1 <= i
MatchAt(s, sub, i) == i + Len(sub) - 1 <= Len(s) /\ SubSeq(s, i, i + Len(sub) - 1) = sub

\* strings.Contains
Contains(s, sub) == \E i \in 1..(Len(s) - Len(sub) + 1) : MatchAt(s, sub, i)

\* strings.Index, counted from 0 as in Go; -1 when sub does not occur
Index(s, sub) ==
    IF Contains(s, sub)
    THEN (CHOOSE i \in 1..(Len(s) - Len(sub) + 1) :
             MatchAt(s, sub, i) /\ \A j \in 1..(i - 1) : ~MatchAt(s, sub, j)) - 1
    ELSE -1

\* strings.LastIndex, counted from 0; -1 when sub does not occur
LastIndex(s, sub) ==
    IF Contains(s, sub)
    THEN (CHOOSE i \in 1..(Len(s) - Len(sub) + 1) :
             MatchAt(s, sub, i) /\ \A j \in (i + 1)..(Len(s) - Len(sub) + 1) : ~MatchAt(s, sub, j)) - 1
    ELSE -1

UpperChars == "ABCDEFGHIJKLMNOPQRSTUVWXYZ"
LowerChars == "abcdefghijklmnopqrstuvwxyz"

UpperSet   == {CharAt(UpperChars, i) : i \in 1..Len(UpperChars)}
LowerOf    == [c \in UpperSet |-> CharAt(LowerChars, Index(UpperChars, c) + 1)]

IsUpper(c) == c \in UpperSet

LowerChar(c) == IF IsUpper(c) THEN LowerOf[c] ELSE c

\* The characters lo..hi of s in lower case, by halves
RECURSIVE LowerRange(_, _, _)
LowerRange(s, lo, hi) ==
    IF lo > hi THEN ""
    ELSE IF lo = hi THEN LowerChar(CharAt(s, lo))
    ELSE LowerRange(s, lo, (lo + hi) \div 2) \o LowerRange(s, (lo + hi) \div 2 + 1, hi)

\* strings.ToLower (ASCII text)
ToLower(s) == IF \E i \in 1..Len(s) : IsUpper(CharAt(s, i)) THEN LowerRange(s, 1, Len(s)) ELSE s

\* unicode.IsSpace on the characters that occur in the texts of the model
IsSpace(c) == c \in {" ", "\n", "\t", "\r"}

\* strings.TrimSpace
firstNonSpace(s) ==
    CHOOSE i \in 1..Len(s) : ~IsSpace(CharAt(s, i)) /\ \A j \in 1..(i - 1) : IsSpace(CharAt(s, j))
lastNonSpace(s) ==
    CHOOSE i \in 1..Len(s) : ~IsSpace(CharAt(s, i)) /\ \A j \in (i + 1)..Len(s) : IsSpace(CharAt(s, j))
TrimSpace(s) ==
    IF \A i \in 1..Len(s) : IsSpace(CharAt(s, i)) THEN ""
    ELSE SubSeq(s, firstNonSpace(s), lastNonSpace(s))

\* len(strings.Fields(s)): the number of maximal runs of non-space characters
NumFields(s) ==
    Cardinality({i \in 1..Len(s) :
                    ~IsSpace(CharAt(s, i)) /\ (i = 1 \/ IsSpace(CharAt(s, i - 1)))})

\* strings.Split(s, sep) for a non-empty sep
RECURSIVE Split(_, _)
RECURSIVE SplitAt(_, _, _)
Split(s, sep) == SplitAt(s, sep, Index(s, sep))
SplitAt(s, sep, k) ==
    IF k < 0 THEN <<s>>
    ELSE <<SubSeq(s, 1, k)>> \o Split(SubSeq(s, k + Len(sep) + 1, Len(s)), sep)

\* strings.Join
RECURSIVE Join(_, _)
Join(parts, sep) ==
    IF Len(parts) = 0 THEN ""
    ELSE IF Len(parts) = 1 THEN parts[1]
    ELSE parts[1] \o sep \o Join(Tail(parts), sep)

\* "some keyword of the list occurs in s": the loops over keyword slices
ContainsAny(s, keywords) == \E i \in 1..Len(keywords) : Contains(s, keywords[i])

\* ------------------------------------------------------------------------
\* encoding/json, as far as the program uses it: json.Unmarshal of a generator
\* response into a struct of bools, *bools, strings, ints and slices.
\* A JSON value is a tagged record; an object's members are a function from
\* the keys present to their values.
\* ------------------------------------------------------------------------

JNull    == [t |-> "null"]
JBool(b) == [t |-> "bool", v |-> b]
JStr(s)  == [t |-> "string", v |-> s]
JNum(n)  == [t |-> "number", v |-> n]
JArr(a)  == [t |-> "array", v |-> a]
JObj(m)  == [t |-> "object", v |-> m]

\* The JSON documents the modelled generator can produce, each with the value
\* the decoder reads from it.  Any other text is a syntax error.
ClassifyDocs ==
    << [text  |-> "{\"is_creation_request\": true, \"is_relevant\": true, \"reason\": \"creation\"}",
       value |-> JObj([is_creation_request |-> JBool(TRUE), is_relevant |-> JBool(TRUE),
                       reason |-> JStr("creation")])],
      [text  |-> "{\"is_creation_request\": false, \"is_relevant\": true}",
       value |-> JObj([is_creation_request |-> JBool(FALSE), is_relevant |-> JBool(TRUE)])],
      [text  |-> "{\"is_creation_request\": true, \"is_relevant\": false}",
       value |-> JObj([is_creation_request |-> JBool(TRUE), is_relevant |-> JBool(FALSE)])],
      [text  |-> "{\"is_creation_request\": false, \"is_relevant\": false}",
       value |-> JObj([is_creation_request |-> JBool(FALSE), is_relevant |-> JBool(FALSE)])],
      [text  |-> "{\"is_creation_request\": true}",
       value |-> JObj([is_creation_request |-> JBool(TRUE)])],
      [text  |-> "{\"is_relevant\": true}",
       value |-> JObj([is_relevant |-> JBool(TRUE)])],
      [text  |-> "{\"is_creation_request\": true, \"is_relevant\": null}",
       value |-> JObj([is_creation_request |-> JBool(TRUE), is_relevant |-> JNull])],
      [text  |-> "{\"is_creation_request\": true, \"is_relevant\": \"yes\"}",
       value |-> JObj([is_creation_request |-> JBool(TRUE), is_relevant |-> JStr("yes")])],
      [text  |-> "{}",
       value |-> JObj(<<>>)],
      [text  |-> "null",
       value |-> JNull],
      [text  |-> "true",
       value |-> JBool(TRUE)] >>

\* JSON text of a string, of a nullable string, of a nullable bool and of an
\* array of strings, as a generator writes them.
EncodeStr(str)  == "\"" \o str \o "\""
EncodeOptStr(str) == IF str = "" THEN "null" ELSE EncodeStr(str)
EncodeOptBool(b) == IF b = "nil" THEN "null" ELSE b
EncodeStrArr(a) == "[" \o Join([i \in 1..Len(a) |-> EncodeStr(a[i])], ", ") \o "]"
EncodeInt(n) ==
    IF n < 0 THEN "-" \o ToString(-n) ELSE ToString(n)
EncodeIntArr(a) == "[" \o Join([i \in 1..Len(a) |-> EncodeInt(a[i])], ", ") \o "]"

JOptStr(str) == IF str = "" THEN JNull ELSE JStr(str)
JOptBool(b)  == IF b = "nil" THEN JNull ELSE JBool(b = "true")
JStrArr(a)   == JArr([i \in 1..Len(a) |-> JStr(a[i])])
JIntArr(a)   == JArr([i \in 1..Len(a) |-> JNum(a[i])])

\* The answer to the extraction prompt that reports the slots of tuple
\* q = <<usecase, operation, is_async, is_umi_compliant, is_private,
\* field_names, event_fields>>, in the shape the prompt asks for.
ExtractDoc(q) ==
    [text  |-> "{\"usecase\": " \o EncodeOptStr(q[1]) \o ", \"operation\": " \o EncodeOptStr(q[2])
                 \o ", \"is_async\": " \o EncodeOptBool(q[3])
                 \o ", \"is_umi_compliant\": " \o EncodeOptBool(q[4])
                 \o ", \"is_private\": " \o EncodeOptBool(q[5])
                 \o ", \"field_names\": " \o EncodeStrArr(q[6])
                 \o ", \"event_fields\": " \o EncodeStrArr(q[7]) \o "}",
     value |-> JObj([usecase |-> JOptStr(q[1]), operation |-> JOptStr(q[2]),
                     is_async |-> JOptBool(q[3]), is_umi_compliant |-> JOptBool(q[4]),
                     is_private |-> JOptBool(q[5]),
                     field_names |-> JStrArr(q[6]), event_fields |-> JStrArr(q[7])])]

\* Every combination of the slots: set/unset usecase and operation, the three
\* tri-state flags, empty/non-empty field names and event fields; the i-th
\* combination, for i in 0 .. NumSlotTuples - 1, in mixed radix.
StrChoices   == <<"", "gold bond">>
OpChoices    == <<"", "create">>
TriChoices   == <<"nil", "true", "false">>
FieldChoices == << <<>>, <<"id">> >>
EventChoices == << <<>>, <<"eventType">> >>
NumSlotTuples ==
    Len(StrChoices) * Len(OpChoices) * Len(TriChoices) * Len(TriChoices) * Len(TriChoices)
        * Len(FieldChoices) * Len(EventChoices)
SlotTuple(i) ==
    << StrChoices[(i % 2) + 1], OpChoices[((i \div 2) % 2) + 1],
       TriChoices[((i \div 4) % 3) + 1], TriChoices[((i \div 12) % 3) + 1],
       TriChoices[((i \div 36) % 3) + 1],
       FieldChoices[((i \div 108) % 2) + 1], EventChoices[((i \div 216) % 2) + 1] >>
AllSlotTuples == [i \in 1..NumSlotTuples |-> SlotTuple(i - 1)]

DocsOf(tuples) == [i \in 1..Len(tuples) |-> ExtractDoc(tuples[i])]

\* A few answers for the multi-turn runs: nothing found; everything known,
\* synchronous; everything known, asynchronous, without and with event
\* fields; one flag only; the same field in both lists.
FewSlotTuples ==
    << <<"", "", "nil", "nil", "nil", <<>>, <<>>>>,
      <<"", "", "false", "true", "true", <<"id">>, <<>>>>,
      <<"", "", "true", "true", "true", <<"id">>, <<>>>>,
      <<"", "", "true", "true", "true", <<"id">>, <<"eventType">>>>,
      <<"", "", "nil", "nil", "true", <<>>, <<>>>>,
      <<"", "", "true", "true", "false", <<"id", "value">>, <<"id">>>> >>

\* Answers to the extraction prompt that are not of the shape asked for
OddExtractDocs ==
    << [text  |-> "{\"is_private\": true}",
        value |-> JObj([is_private |-> JBool(TRUE)])],
       [text  |-> "{\"is_async\": \"yes\", \"field_names\": [\"id\"]}",
        value |-> JObj([is_async |-> JStr("yes"), field_names |-> JStrArr(<<"id">>)])],
       [text  |-> "{\"usecase\": \"gold bond\", \"field_names\": null}",
        value |-> JObj([usecase |-> JStr("gold bond"), field_names |-> JNull])] >>

\* Answers to the API-selection and field-selection prompts
ApiIndexDoc(n) ==
    [text |-> "{\"api_index\": " \o EncodeInt(n) \o "}", value |-> JObj([api_index |-> JNum(n)])]
FieldIndexDoc(a) ==
    [text |-> "{\"field_index\": " \o EncodeIntArr(a) \o "}", value |-> JObj([field_index |-> JIntArr(a)])]

ApiIndexChoices == <<-1, 0, 1, 2, 3, 999>>
FieldIndexChoices == << <<>>, <<0>>, <<1, 0>>, <<0, 7, -1, 1>>, <<0, 5, 0>> >>

SelectDocs ==
    [i \in 1..Len(ApiIndexChoices) |-> ApiIndexDoc(ApiIndexChoices[i])]
      \o [i \in 1..Len(FieldIndexChoices) |-> FieldIndexDoc(FieldIndexChoices[i])]
      \o << [text  |-> "{\"api_index\": \"first\"}",
             value |-> JObj([api_index |-> JStr("first")])] >>

AllExtractDocs == DocsOf(AllSlotTuples)
FewExtractDocs == DocsOf(FewSlotTuples)

\* Every JSON document of the model
JSONDocs == ClassifyDocs \o AllExtractDocs \o FewExtractDocs \o OddExtractDocs \o SelectDocs

\* The decoder: the value of a known document, a syntax error for other text
SyntaxError == [t |-> "syntax error"]
DecodeIn(docs, text) ==
    IF \E i \in 1..Len(docs) : docs[i].text = text
    THEN docs[CHOOSE i \in 1..Len(docs) : docs[i].text = text].value
    ELSE SyntaxError
Decode(text) == DecodeIn(JSONDocs, text)

\* Decoding member key of object members m into a Go field of JSON type ty:
\* an absent or null member leaves the field at its zero value; a value of
\* another type is an UnmarshalTypeError.
HasMember(m, key) == key \in DOMAIN m /\ m[key].t # "null"
MemberBad(m, key, ty) == HasMember(m, key) /\ m[key].t # ty
MemberOr(m, key, zero) == IF HasMember(m, key) THEN m[key].v ELSE zero

\* A generator outcome: the call failed, or it returned text.
GenFail     == [err |-> TRUE, text |-> ""]
GenText(tx) == [err |-> FALSE, text |-> tx]

\* What a generator may put around a JSON document: nothing, prose before it,
\* prose after it, or a stray closing brace after it.
Wrapped(doc) == { doc, "Sure, here it is: " \o doc, doc \o " Hope this helps.", doc \o " }" }

\* The texts of a table of documents
DocTexts(docs) == {docs[i].text : i \in 1..Len(docs)}

\* Replies to a prompt that asks for one of the documents of docs: a failed
\* call, text without any JSON, or a document, bare or wrapped.
RepliesOver(docs) ==
    {GenFail}
      \cup {GenText(tx) : tx \in {"", "I am sorry, I cannot do that.", "} not json {"}}
      \cup {GenText(tx) : tx \in UNION {Wrapped(d) : d \in DocTexts(docs)}}

\* The same without the wrapped variants
BareRepliesOver(docs) ==
    {GenFail, GenText("I am sorry, I cannot do that.")} \cup {GenText(tx) : tx \in DocTexts(docs)}

\* ------------------------------------------------------------------------
\* package recommend: helpers
\* ------------------------------------------------------------------------

extractJSON(s) ==
    LET start == Index(s, "{")
        end   == LastIndex(s, "}")
    IN  IF start >= 0 /\ end > start THEN SubSeq(s, start + 1, end + 1) ELSE s

\* *bool and the booleans of the program are the strings below, so that an
\* unset pointer is a value like the others.
Nil   == "nil"
True  == "true"
False == "false"
PtrBool(b) == IF b THEN True ELSE False

\* ------------------------------------------------------------------------
\* recommend.ClassifyQuery
\* ------------------------------------------------------------------------

irrelevantKeywords == <<"buy", "purchase", "sell", "lamborghini", "lamborgini", "car", "vehicle", "shopping">>

apiRelated(lower) ==
    \/ Contains(lower, "asset") \/ Contains(lower, "bond")
    \/ Contains(lower, "token") \/ Contains(lower, "transaction")
    \/ Contains(lower, "api")   \/ Contains(lower, "payload")

\* isIrrelevantLower looking for the first keyword only
isIrrelevantFirstKeyword(lower) == Contains(lower, irrelevantKeywords[1]) /\ ~apiRelated(lower)
\* The first loop of ClassifyQuery returns (false, false)
isIrrelevantLower(lower) ==
    \E i \in 1..Len(irrelevantKeywords) :
        Contains(lower, irrelevantKeywords[i]) /\ ~apiRelated(lower)
isIrrelevant(userInput) == isIrrelevantLower(ToLower(userInput))

explainKeywords == <<"explain", "what is", "what does", "tell me about", "how does", "describe", "meaning of">>

fallbackExplainKeywords == <<"explain", "what is", "what does", "tell me about", "how does", "describe">>

\* isExplanation with the shorter keyword list of classifyQueryFallback
isExplanationShortList(userInput) == ContainsAny(ToLower(userInput), fallbackExplainKeywords)
\* The second loop of ClassifyQuery returns (false, true)
isExplanation(userInput) == ContainsAny(ToLower(userInput), explainKeywords)

fallbackCreationKeywords == <<"create", "make", "generate", "build", "new", "want to", "need to", "burn", "lock">>

\* classifyLowerFallback without the loop over the creation keywords
classifyLowerFallbackShort(lower) ==
    IF ContainsAny(lower, fallbackExplainKeywords) THEN FALSE
    ELSE IF NumFields(lower) <= 3 THEN TRUE
    ELSE FALSE
classifyLowerFallback(lower) ==
    IF ContainsAny(lower, fallbackExplainKeywords) THEN FALSE
    ELSE IF ContainsAny(lower, fallbackCreationKeywords) THEN TRUE
    ELSE IF NumFields(lower) <= 3 THEN TRUE
    ELSE FALSE
classifyQueryFallback(userInput) == classifyLowerFallback(ToLower(userInput))

\* The last n members of parts (all of them when there are no more than n)
LastN(parts, n) == SubSeq(parts, IF Len(parts) > n THEN Len(parts) - n + 1 ELSE 1, Len(parts))

getRecentHistory(history, n) ==
    IF history = "" THEN "" ELSE Join(LastN(Split(history, "\n"), n * 2), "\n")

\* json.Unmarshal([]byte(text), &result) for the classification result struct
classifyResult(err, isCreationRequest, isRelevant) ==
    [err |-> err, IsCreationRequest |-> isCreationRequest, IsRelevant |-> isRelevant]
UnmarshalClassifyValue(d) ==
    IF d = SyntaxError THEN classifyResult(TRUE, FALSE, FALSE)
    ELSE IF d.t = "null" THEN classifyResult(FALSE, FALSE, FALSE)
    ELSE IF d.t # "object" THEN classifyResult(TRUE, FALSE, FALSE)
    ELSE classifyResult(\/ MemberBad(d.v, "is_creation_request", "bool")
                        \/ MemberBad(d.v, "is_relevant", "bool")
                        \/ MemberBad(d.v, "reason", "string"),
                        IF MemberBad(d.v, "is_creation_request", "bool") THEN FALSE
                        ELSE MemberOr(d.v, "is_creation_request", FALSE),
                        IF MemberBad(d.v, "is_relevant", "bool") THEN FALSE
                        ELSE MemberOr(d.v, "is_relevant", FALSE))
UnmarshalClassify(text) == UnmarshalClassifyValue(Decode(text))

\* The prompt of a generator call, reduced to the call's kind and the texts
\* the code interpolates into it.
Prompt(kind, input, context) == [kind |-> kind, input |-> input, context |-> context]
NoPrompt == Prompt("none", "", "")

\* The results of ClassifyQuery, whether the generator was called, the prompt
classified(isCreation, isRelevant, called, prompt) ==
    [isCreation |-> isCreation, isRelevant |-> isRelevant, err |-> FALSE, called |-> called, prompt |-> prompt]

\* classifyWithGenerator returning the generator's error to the caller
classifyWithGeneratorError(userInput, prompt, gen, result) ==
    IF gen.err
    THEN [isCreation |-> FALSE, isRelevant |-> FALSE, err |-> TRUE, called |-> TRUE, prompt |-> prompt]
    ELSE IF result.err THEN classified(classifyQueryFallback(userInput), TRUE, TRUE, prompt)
    ELSE IF ~result.IsRelevant THEN classified(FALSE, FALSE, TRUE, prompt)
    ELSE classified(result.IsCreationRequest, TRUE, TRUE, prompt)
\* ClassifyQuery from the generator call on: gen is the call's outcome and
\* result what json.Unmarshal made of the response
classifyWithGenerator(userInput, prompt, gen, result) ==
    IF gen.err THEN classified(classifyQueryFallback(userInput), TRUE, TRUE, prompt)
    ELSE IF result.err THEN classified(classifyQueryFallback(userInput), TRUE, TRUE, prompt)
    ELSE IF ~result.IsRelevant THEN classified(FALSE, FALSE, TRUE, prompt)
    ELSE classified(result.IsCreationRequest, TRUE, TRUE, prompt)

\* ClassifyQuery(ctx, userInput, history, llm) with the generator answering gen
ClassifyQuery(userInput, history, gen) ==
    IF isIrrelevant(userInput) THEN classified(FALSE, FALSE, FALSE, NoPrompt)
    ELSE IF isExplanation(userInput) THEN classified(FALSE, TRUE, FALSE, NoPrompt)
    ELSE classifyWithGenerator(userInput, Prompt("classify", userInput, getRecentHistory(history, 3)),
                               gen, UnmarshalClassify(extractJSON(gen.text)))

\* ------------------------------------------------------------------------
\* recommend.ExtractQueryInfo
\* ------------------------------------------------------------------------

\* type QueryInfo; the zero value is &QueryInfo{}
QueryInfo(usecase, operation, isAsync, isUMI, isPrivate, fieldNames, eventFields) ==
    [IsAsync |-> isAsync, IsUMICompliant |-> isUMI, IsPrivate |-> isPrivate,
     FieldNames |-> fieldNames, EventFields |-> eventFields,
     Operation |-> operation, UseCase |-> usecase]
emptyQueryInfo == QueryInfo("", "", Nil, Nil, Nil, <<>>, <<>>)

\* The map usecaseKeywords of extractQueryInfoFallback
usecaseKeywords ==
    << [keyword |-> "insurance",     usecase |-> "insurance"],
       [keyword |-> "fd",            usecase |-> "fd"],
       [keyword |-> "fixed deposit", usecase |-> "fd"],
       [keyword |-> "gold bond",     usecase |-> "gold bond"],
       [keyword |-> "bond",          usecase |-> "bond"],
       [keyword |-> "mutual fund",   usecase |-> "mutual fund"],
       [keyword |-> "mf",            usecase |-> "mutual fund"] >>

\* The text the fallback analyses
textToAnalyze(userInput, context) == IF context # "" THEN context \o " " \o userInput ELSE userInput

\* The usecases the loop over the map can end with: Go iterates a map in an
\* unspecified order and the loop stops at the first keyword that matches, so
\* every matching keyword's usecase is a possible result ("" when none matches).
usecaseHits(lower) ==
    {i \in 1..Len(usecaseKeywords) :
        \/ Contains(lower, usecaseKeywords[i].keyword) /\ Contains(lower, "usecase")
        \/ Contains(lower, "build") /\ Contains(lower, usecaseKeywords[i].keyword)}
usecasesOf(hits) == IF hits = {} THEN {""} ELSE {usecaseKeywords[i].usecase : i \in hits}
usecaseOutcomes(userInput, context) == usecasesOf(usecaseHits(ToLower(textToAnalyze(userInput, context))))

fallbackOperation(lower) ==
    IF Contains(lower, "create") \/ Contains(lower, "issue") THEN "create"
    ELSE IF Contains(lower, "burn") \/ Contains(lower, "manage") THEN "burn"
    ELSE IF Contains(lower, "trade") \/ Contains(lower, "settle") THEN "trade"
    ELSE ""

hasYes(lower) ==
    Contains(lower, " yes") \/ Contains(lower, "\nyes") \/ Contains(lower, "yes\n") \/ Contains(lower, "yes,")
hasNo(lower) ==
    Contains(lower, " no") \/ Contains(lower, "\nno") \/ Contains(lower, "no\n") \/ Contains(lower, "no,")

fallbackIsAsync(lower, context) ==
    IF Contains(lower, "async") \/ Contains(lower, "asynchronous")
    THEN LET asyncFalse ==
                 \/ Contains(lower, "not async")
                 \/ Contains(lower, "no async")
                 \/ Contains(lower, "async: no")
                 \/ Contains(lower, "async=false")
                 \/ Contains(lower, "async no")
                 \/ /\ Contains(lower, "async") /\ Contains(lower, "no")
                    /\ Index(lower, "async") < Index(lower, "no") + 10
         IN  IF asyncFalse THEN False ELSE True
    ELSE IF context # ""
    THEN IF (Contains(lower, "async") \/ Contains(lower, "asynchronous")) /\ hasYes(lower) THEN True
         ELSE IF (Contains(lower, "async") \/ Contains(lower, "asynchronous")) /\ hasNo(lower) THEN False
         ELSE Nil
    ELSE Nil

fallbackIsUMICompliant(lower) ==
    IF Contains(lower, "umi compliant") \/ Contains(lower, "umi-compliant")
    THEN LET umiFalse ==
                 \/ Contains(lower, "not umi")
                 \/ Contains(lower, "no umi")
                 \/ Contains(lower, "umi: no")
                 \/ Contains(lower, "umi=false")
                 \/ Contains(lower, "umi no")
                 \/ /\ Contains(lower, "umi") /\ Contains(lower, "no")
                    /\ Index(lower, "umi") < Index(lower, "no") + 15
         IN  IF umiFalse THEN False ELSE True
    ELSE IF Contains(lower, "umi") /\ ~Contains(lower, "explain")
    THEN IF hasYes(lower) THEN True
         ELSE IF hasNo(lower) THEN False
         ELSE Nil
    ELSE Nil

fallbackIsPrivate(lower) ==
    IF Contains(lower, "private") /\ ~Contains(lower, "public") THEN True
    ELSE IF Contains(lower, "public") THEN False
    ELSE Nil

commonFields ==
    <<"id", "value", "key", "toWalletAddress", "fromWalletAddress",
      "walletAddress", "requestId", "msgId", "name", "type", "event", "eventType",
      "startYear", "endYear", "policyNumber", "premium", "coverageAmount",
      "principal", "interestRate", "tenure", "maturityDate",
      "quantity", "purity", "price", "units", "nav", "investmentAmount">>

\* The loop over commonFields, from its i-th member on
RECURSIVE fieldNamesFrom(_, _)
fieldNamesFrom(lower, i) ==
    IF i > Len(commonFields) THEN <<>>
    ELSE LET field == commonFields[i]
             mentioned == /\ Contains(lower, field)
                          /\ ~Contains(lower, "explain " \o field)
                          /\ ~Contains(lower, "what is " \o field)
         IN  (IF mentioned THEN <<field>> ELSE <<>>) \o fieldNamesFrom(lower, i + 1)

fallbackFieldNames(lower) == fieldNamesFrom(lower, 1)

\* extractQueryInfoFallback(userInput, context), the map loop ending with usecase
fallbackOfLower(lower, context, usecase) ==
    QueryInfo(usecase, fallbackOperation(lower),
              fallbackIsAsync(lower, context), fallbackIsUMICompliant(lower),
              fallbackIsPrivate(lower), fallbackFieldNames(lower), <<>>)
extractQueryInfoFallback(userInput, context, usecase) ==
    fallbackOfLower(ToLower(textToAnalyze(userInput, context)), context, usecase)

\* json.Unmarshal([]byte(text), &result) for the extraction result struct
StrArrMember(m, key)  == IF HasMember(m, key) THEN [i \in 1..Len(m[key].v) |-> m[key].v[i].v] ELSE <<>>
OptBoolMember(m, key) == IF HasMember(m, key) THEN PtrBool(m[key].v) ELSE Nil
UnmarshalExtractValue(d) ==
    IF d = SyntaxError THEN [err |-> TRUE, info |-> emptyQueryInfo]
    ELSE IF d.t = "null" THEN [err |-> FALSE, info |-> emptyQueryInfo]
    ELSE IF d.t # "object" THEN [err |-> TRUE, info |-> emptyQueryInfo]
    ELSE IF \/ MemberBad(d.v, "usecase", "string") \/ MemberBad(d.v, "operation", "string")
            \/ MemberBad(d.v, "is_async", "bool") \/ MemberBad(d.v, "is_umi_compliant", "bool")
            \/ MemberBad(d.v, "is_private", "bool")
            \/ MemberBad(d.v, "field_names", "array") \/ MemberBad(d.v, "event_fields", "array")
    THEN [err |-> TRUE, info |-> emptyQueryInfo]
    ELSE [err |-> FALSE,
          info |-> QueryInfo(MemberOr(d.v, "usecase", ""), MemberOr(d.v, "operation", ""),
                             OptBoolMember(d.v, "is_async"), OptBoolMember(d.v, "is_umi_compliant"),
                             OptBoolMember(d.v, "is_private"),
                             StrArrMember(d.v, "field_names"), StrArrMember(d.v, "event_fields"))]
UnmarshalExtract(text) == UnmarshalExtractValue(Decode(text))

\* contextToUse without the reset for a new request
contextToUseHistory(history, isNewRequest) == history
\* The context ExtractQueryInfo works with
contextToUse(history, isNewRequest) == IF isNewRequest THEN "" ELSE history

\* The merge of the fallback's result into a generator result that found nothing
mergeFallback(info, fallbackInfo) ==
    IF /\ info.IsAsync = Nil /\ info.IsUMICompliant = Nil /\ info.IsPrivate = Nil
       /\ Len(info.FieldNames) = 0 /\ info.UseCase = ""
    THEN [info EXCEPT
            !.UseCase        = IF info.UseCase = "" THEN fallbackInfo.UseCase ELSE @,
            !.Operation      = IF info.Operation = "" THEN fallbackInfo.Operation ELSE @,
            !.IsAsync        = IF info.IsAsync = Nil THEN fallbackInfo.IsAsync ELSE @,
            !.IsUMICompliant = IF info.IsUMICompliant = Nil THEN fallbackInfo.IsUMICompliant ELSE @,
            !.IsPrivate      = IF info.IsPrivate = Nil THEN fallbackInfo.IsPrivate ELSE @,
            !.FieldNames     = IF Len(info.FieldNames) = 0 THEN fallbackInfo.FieldNames ELSE @]
    ELSE info

\* The QueryInfo, the error and the prompt that ExtractQueryInfo ends with
extracted(info, prompt) == [info |-> info, err |-> FALSE, prompt |-> prompt]

\* extractWithGenerator returning the error of json.Unmarshal
extractWithGeneratorStrict(prompt, gen, result, fallback) ==
    IF gen.err THEN extracted(fallback, prompt)
    ELSE IF result.err THEN [info |-> emptyQueryInfo, err |-> TRUE, prompt |-> prompt]
    ELSE extracted(mergeFallback(result.info, fallback), prompt)
\* ExtractQueryInfo from the generator call on: gen is the call's outcome,
\* result what json.Unmarshal made of the response, fallback what
\* extractQueryInfoFallback returns
extractWithGenerator(prompt, gen, result, fallback) ==
    IF gen.err THEN extracted(fallback, prompt)
    ELSE IF result.err THEN extracted(fallback, prompt)
    ELSE extracted(mergeFallback(result.info, fallback), prompt)

\* ExtractQueryInfo on the context it has chosen
extractInContext(userInput, context, gen, usecase) ==
    extractWithGenerator(Prompt("extract", userInput, context), gen,
                         UnmarshalExtract(extractJSON(gen.text)),
                         extractQueryInfoFallback(userInput, context, usecase))

\* ExtractQueryInfo(ctx, userInput, history, llm, isNewRequest) with the
\* generator answering gen and the fallback's map loop ending with usecase
ExtractQueryInfo(userInput, history, gen, isNewRequest, usecase) ==
    extractInContext(userInput, contextToUse(history, isNewRequest), gen, usecase)

\* ------------------------------------------------------------------------
\* recommend.GenerateFollowUpQuestions and recommend.AnswerFieldQuestion
\* ------------------------------------------------------------------------

\* The map usecaseFieldMap of getUsecaseFields, as rows <<usecase, operation, fields>>
usecaseFieldMap ==
    << <<"insurance", "create", <<"startYear", "endYear", "policyNumber", "premium", "coverageAmount", "type">>>>,
       <<"insurance", "burn",   <<"policyNumber", "type", "id">>>>,
       <<"insurance", "trade",  <<"policyNumber", "type", "id", "value">>>>,
       <<"fd", "create", <<"principal", "interestRate", "tenure", "maturityDate", "type">>>>,
       <<"fd", "burn",   <<"id", "type", "principal">>>>,
       <<"fd", "trade",  <<"id", "type", "value", "principal">>>>,
       <<"gold bond", "create", <<"quantity", "purity", "price", "type", "id">>>>,
       <<"gold bond", "burn",   <<"id", "type", "quantity">>>>,
       <<"gold bond", "trade",  <<"id", "type", "value", "quantity">>>>,
       <<"bond", "create", <<"quantity", "purity", "price", "type", "id">>>>,
       <<"bond", "burn",   <<"id", "type", "quantity">>>>,
       <<"bond", "trade",  <<"id", "type", "value", "quantity">>>>,
       <<"mutual fund", "create", <<"units", "nav", "investmentAmount", "type", "id">>>>,
       <<"mutual fund", "burn",   <<"id", "type", "units">>>>,
       <<"mutual fund", "trade",  <<"id", "type", "value", "units">>>> >>

usecaseFieldRows(uc, op) ==
    {i \in 1..Len(usecaseFieldMap) : usecaseFieldMap[i][1] = uc /\ usecaseFieldMap[i][2] = op}
usecaseFieldsOf(rows, defaultRows) ==
    IF rows # {} THEN usecaseFieldMap[CHOOSE i \in rows : TRUE][3]
    ELSE IF defaultRows # {} THEN usecaseFieldMap[CHOOSE i \in defaultRows : TRUE][3]
    ELSE <<>>
usecaseFieldsLower(uc, op) == usecaseFieldsOf(usecaseFieldRows(uc, op), usecaseFieldRows(uc, "create"))
getUsecaseFields(usecase, operation) == usecaseFieldsLower(ToLower(usecase), ToLower(operation))

\* The operation question applies: usecase set, operation unset
needsOperation(info) == info.UseCase # "" /\ info.Operation = ""

\* The deterministic operation question.  The source text has the arrow
\* U+2192 (three bytes) where this text has "-->" (three bytes).
operationQuestion(usecase) ==
    "For " \o usecase \o " usecase, which operation do you want to perform?\n\n"
      \o "- CREATE/ISSUE --> use req issue API\n- BURN/MANAGE --> use req manage API\n"
      \o "- TRADE/SETTLE --> use req settle API\n\nPlease specify: create, burn, or trade"

askAsync   == "Is this request async? (yes/no)"
askUMI     == "Is this UMI compliant? (yes/no)"
askPrivate == "Is this private or public?"
askFields  == "Please provide at least one field name for the REQUEST payload (e.g., id, type, value, etc.)"
askEvent   ==
    "Since this is an async request, please provide at least one field name for the EVENT payload separately (e.g., id, type, eventType, timestamp, etc.). Note: Event payload fields are different from request payload fields."

askSuggested(usecase, op, suggestedFields) ==
    IF Len(suggestedFields) > 0
    THEN "Please provide at least one field name for the REQUEST payload. Suggested fields for "
           \o usecase \o " (" \o op \o "): " \o Join(suggestedFields, ", ")
    ELSE askFields
askFieldsOp(usecase, op) == askSuggested(usecase, op, getUsecaseFields(usecase, op))
askFieldsFor(info) ==
    IF info.UseCase # ""
    THEN askFieldsOp(info.UseCase, IF info.Operation = "" THEN "create" ELSE info.Operation)
    ELSE askFields

\* missingItems without the item for the event fields
missingItemsNoEvent(info) ==
    (IF info.IsAsync = Nil THEN <<askAsync>> ELSE <<>>)
      \o (IF info.IsUMICompliant = Nil THEN <<askUMI>> ELSE <<>>)
      \o (IF info.IsPrivate = Nil THEN <<askPrivate>> ELSE <<>>)
      \o (IF Len(info.FieldNames) = 0 THEN <<askFieldsFor(info)>> ELSE <<>>)
\* The slice missing of GenerateFollowUpQuestions
missingItems(info) ==
    (IF info.IsAsync = Nil THEN <<askAsync>> ELSE <<>>)
      \o (IF info.IsUMICompliant = Nil THEN <<askUMI>> ELSE <<>>)
      \o (IF info.IsPrivate = Nil THEN <<askPrivate>> ELSE <<>>)
      \o (IF Len(info.FieldNames) = 0 THEN <<askFieldsFor(info)>> ELSE <<>>)
      \o (IF info.IsAsync = True /\ Len(info.EventFields) = 0 THEN <<askEvent>> ELSE <<>>)

RECURSIVE numbered(_, _)
numbered(missing, i) ==
    IF i > Len(missing) THEN ""
    ELSE ToString(i) \o ". " \o missing[i] \o "\n" \o numbered(missing, i + 1)

\* The string missingList of the follow-up prompt
RECURSIVE missingListFrom(_, _)
missingListFrom(missing, i) ==
    IF i > Len(missing) THEN ""
    ELSE (IF i = Len(missing) /\ Len(missing) > 1
          THEN "and " \o ToString(i) \o ". " \o missing[i]
          ELSE ToString(i) \o ". " \o missing[i] \o "\n") \o missingListFrom(missing, i + 1)

\* The deterministic question for the missing items
missingQuestion(missing) ==
    "To proceed with your request, I need the following information:\n"
      \o numbered(missing, 1) \o "Please provide all of these details at once."

\* What GenerateFollowUpQuestions ends with: the question text, the error,
\* whether the generator was called, whether it is the operation question,
\* the items asked for, and the prompt
question(text, called, operation, missing, prompt) ==
    [text |-> text, err |-> FALSE, called |-> called, operation |-> operation,
     missing |-> missing, prompt |-> prompt]

\* GenerateFollowUpQuestions past the operation question, with the slice missing
askMissing(missing, gen) ==
    IF Len(missing) = 0 THEN question("", FALSE, FALSE, missing, NoPrompt)
    ELSE question(IF gen.err THEN missingQuestion(missing) ELSE TrimSpace(gen.text),
                  TRUE, FALSE, missing, Prompt("followup", missingListFrom(missing, 1), ""))

\* GenerateFollowUpQuestions asking for the missing slots first and for the
\* operation only when no slot is missing
GenerateFollowUpQuestionsSlotsFirst(info, gen) ==
    IF needsOperation(info) /\ Len(missingItems(info)) = 0
    THEN question(IF gen.err THEN operationQuestion(info.UseCase) ELSE TrimSpace(gen.text),
                  TRUE, TRUE, <<>>, Prompt("operation", info.UseCase, ""))
    ELSE askMissing(missingItems(info), gen)
\* GenerateFollowUpQuestions(ctx, info, llm) with the generator answering gen
GenerateFollowUpQuestions(info, gen) ==
    IF needsOperation(info)
    THEN question(IF gen.err THEN operationQuestion(info.UseCase) ELSE TrimSpace(gen.text),
                  TRUE, TRUE, <<>>, Prompt("operation", info.UseCase, ""))
    ELSE askMissing(missingItems(info), gen)

answerUMICompliant ==
    "UMI compliant means that a request adheres to the **Unified Market Interface** (UMI) compliance standard. UMI is a standard that ensures interoperability and standardization across different market participants and systems. When a request is UMI compliant, it means it follows the Unified Market Interface specifications for data exchange and communication protocols."
answerUMI ==
    "UMI stands for **Unified Market Interface**. It's a compliance standard that ensures interoperability and standardization across different market participants and systems. When a request is UMI compliant, it means it adheres to the Unified Market Interface specifications for data exchange and communication protocols."
answerAsync ==
    "In the UMI project, the **async** field (or **isAsync**) is a boolean flag in the request context that determines how the API request is processed.\n\n"
      \o "**Async Flow (isAsync = true):**\n1. FSP commits the transaction on DLT (Distributed Ledger Technology)\n"
      \o "2. Chaincode sends an event to FSP via gRPC\n3. FSP produces the event in Kafka\n4. Backend consumes the event from Kafka\n\n"
      \o "**Sync Flow (isAsync = false or omitted):**\nThe API processes the request synchronously, waiting for the operation to complete before returning a response.\n\n"
      \o "When you set 'isAsync: true' in your request, the system follows the async flow where the transaction is committed on DLT first, then events are propagated through gRPC and Kafka for backend processing."

\* What AnswerFieldQuestion ends with
answer(text, err, called, prompt) == [text |-> text, err |-> err, called |-> called, prompt |-> prompt]

answerLower(lower, userInput, gen) ==
    IF Contains(lower, "umi compliant") \/ Contains(lower, "umi-compliant")
    THEN answer(answerUMICompliant, FALSE, FALSE, NoPrompt)
    ELSE IF /\ Contains(lower, "umi")
            /\ \/ Contains(lower, "explain") \/ Contains(lower, "what is")
               \/ Contains(lower, "what does") \/ Contains(lower, "meaning")
               \/ Contains(lower, "stand for") \/ Contains(lower, "full form")
               \/ Contains(lower, "fullform")
    THEN answer(answerUMI, FALSE, FALSE, NoPrompt)
    ELSE IF /\ Contains(lower, "async")
            /\ \/ Contains(lower, "what is") \/ Contains(lower, "explain")
               \/ Contains(lower, "what does") \/ Contains(lower, "field")
               \/ Contains(lower, "sync vs async") \/ Contains(lower, "sync versus async")
               \/ Contains(lower, "difference")
    THEN answer(answerAsync, FALSE, FALSE, NoPrompt)
    ELSE answer(IF gen.err THEN "" ELSE TrimSpace(gen.text), gen.err, TRUE, Prompt("answer", userInput, ""))

\* AnswerFieldQuestion(ctx, userInput, "", llm) with the generator answering gen
AnswerFieldQuestion(userInput, gen) == answerLower(ToLower(userInput), userInput, gen)

\* ------------------------------------------------------------------------
\* recommend.Recommend1
\* ------------------------------------------------------------------------

APIField(name, type, description) == [Name |-> name, Type |-> type, Description |-> description]

\* The catalog: the first three entries of the API document
apis ==
    << [Name |-> "Manage", Path |-> "/umi/v1/ReqManage", Method |-> "POST",
        Description |-> "Manage method will process the request based on the type and action and return error if any. This will be used to manage assets like lock, unlock, burn the assets on DLT.",
        Fields |-> <<APIField("manage", "xml", "manage payload")>>],
       [Name |-> "Issue", Path |-> "/umi/v1/ReqIssue", Method |-> "POST",
        Description |-> "Issue method will process the request based on the type and action and return error if any. This will be used to issue/create new assets on DLT.",
        Fields |-> <<APIField("issue", "xml", "issue payload")>>],
       [Name |-> "Settle", Path |-> "/umi/v1/ReqSettle", Method |-> "POST",
        Description |-> "Settle method will process the request based on the requestType and requestAction and return error if any. This will be used for inter-network asset trade custom instructions in coordinator. It will be used to transfer one asset from one organization to another.",
        Fields |-> <<APIField("settle", "xml", "settle payload")>>] >>

\* model.APIDoc{}
noAPI == [Name |-> "", Path |-> "", Method |-> "", Description |-> "", Fields |-> <<>>]

operationMap(operation) ==
    IF operation = "create" THEN "req issue"
    ELSE IF operation = "burn" THEN "req manage"
    ELSE IF operation = "trade" THEN "req settle"
    ELSE ""

enhancedUserRequest(user, queryInfo) ==
    (IF queryInfo.UseCase # "" THEN user \o " (usecase: " \o queryInfo.UseCase \o ")" ELSE user)
      \o (IF queryInfo.Operation # "" /\ operationMap(queryInfo.Operation) # ""
          THEN " (operation: " \o queryInfo.Operation \o ", API type: "
                 \o operationMap(queryInfo.Operation) \o ")"
          ELSE "")

\* json.Unmarshal into struct{ APIIndex int `json:"api_index"` }
UnmarshalApiIndexValue(d) ==
    IF d = SyntaxError THEN [err |-> TRUE, APIIndex |-> 0]
    ELSE IF d.t = "null" THEN [err |-> FALSE, APIIndex |-> 0]
    ELSE IF d.t # "object" THEN [err |-> TRUE, APIIndex |-> 0]
    ELSE IF MemberBad(d.v, "api_index", "number") THEN [err |-> TRUE, APIIndex |-> 0]
    ELSE [err |-> FALSE, APIIndex |-> MemberOr(d.v, "api_index", 0)]
UnmarshalApiIndex(text) == UnmarshalApiIndexValue(Decode(text))

\* json.Unmarshal into Selection
UnmarshalSelectionValue(d) ==
    IF d = SyntaxError THEN [err |-> TRUE, APIIndex |-> 0, FieldIndex |-> <<>>]
    ELSE IF d.t = "null" THEN [err |-> FALSE, APIIndex |-> 0, FieldIndex |-> <<>>]
    ELSE IF d.t # "object" THEN [err |-> TRUE, APIIndex |-> 0, FieldIndex |-> <<>>]
    ELSE IF MemberBad(d.v, "api_index", "number") \/ MemberBad(d.v, "field_index", "array")
    THEN [err |-> TRUE, APIIndex |-> 0, FieldIndex |-> <<>>]
    ELSE [err |-> FALSE, APIIndex |-> MemberOr(d.v, "api_index", 0),
          FieldIndex |-> StrArrMember(d.v, "field_index")]
UnmarshalSelection(text) == UnmarshalSelectionValue(Decode(text))

\* The API-selection step of Recommend1 with the generator answering gen:
\* the error ("" for none) and the index of the chosen API
errLLM == "generator call failed"
\* selectAPIStep taking the first API when the index is out of range
selectAPIStepClamped(catalog, gen, step1) ==
    IF gen.err THEN [err |-> errLLM, index |-> -1]
    ELSE IF step1.err THEN [err |-> "parse API index", index |-> -1]
    ELSE IF step1.APIIndex < 0 \/ step1.APIIndex >= Len(catalog)
    THEN [err |-> "", index |-> 0]
    ELSE [err |-> "", index |-> step1.APIIndex]
selectAPIStep(catalog, gen, step1) ==
    IF gen.err THEN [err |-> errLLM, index |-> -1]
    ELSE IF step1.err THEN [err |-> "parse API index", index |-> -1]
    ELSE IF step1.APIIndex < 0 \/ step1.APIIndex >= Len(catalog)
    THEN [err |-> "api_index out of range", index |-> -1]
    ELSE [err |-> "", index |-> step1.APIIndex]
selectAPI(catalog, gen) == selectAPIStep(catalog, gen, UnmarshalApiIndex(extractJSON(gen.text)))

\* The loop that builds picked from step2.FieldIndex, from its i-th member on
RECURSIVE pickedFrom(_, _, _)
pickedFrom(fields, fieldIndex, i) ==
    IF i > Len(fieldIndex) THEN <<>>
    ELSE (IF fieldIndex[i] >= 0 /\ fieldIndex[i] < Len(fields)
          THEN <<fields[fieldIndex[i] + 1]>> ELSE <<>>) \o pickedFrom(fields, fieldIndex, i + 1)

\* The field-selection step of Recommend1 with the generator answering gen
\* selectFieldsStep refusing an answer with an index out of range
selectFieldsStepStrict(chosen, gen, step2) ==
    IF gen.err THEN [err |-> errLLM, picked |-> <<>>]
    ELSE IF step2.err THEN [err |-> "parse field_index", picked |-> <<>>]
    ELSE IF \E i \in 1..Len(step2.FieldIndex) :
                step2.FieldIndex[i] < 0 \/ step2.FieldIndex[i] >= Len(chosen.Fields)
    THEN [err |-> "field_index out of range", picked |-> <<>>]
    ELSE [err |-> "", picked |-> pickedFrom(chosen.Fields, step2.FieldIndex, 1)]
selectFieldsStep(chosen, gen, step2) ==
    IF gen.err THEN [err |-> errLLM, picked |-> <<>>]
    ELSE IF step2.err THEN [err |-> "parse field_index", picked |-> <<>>]
    ELSE [err |-> "", picked |-> pickedFrom(chosen.Fields, step2.FieldIndex, 1)]
selectFields(chosen, gen) == selectFieldsStep(chosen, gen, UnmarshalSelection(extractJSON(gen.text)))

\* wantsEventPayload looking at the event fields alone
wantsEventPayloadForFields(queryInfo) == Len(queryInfo.EventFields) > 0
\* Recommend1 makes the event-payload call
wantsEventPayload(queryInfo) == queryInfo.IsAsync = True /\ Len(queryInfo.EventFields) > 0

\* ------------------------------------------------------------------------
\* package main: chat_service.go
\* ------------------------------------------------------------------------

redirectMessage ==
    "I'm an AI agent for the UMI (Unified Market Interface) project. I can help you with UMI project-related requests like creating assets, bonds, transactions, or answering questions about API fields and project-specific concepts. Your request doesn't seem to be related to the UMI project. How can I help you with UMI-related tasks?"

composeConversationAwareRequest(history, latest) ==
    IF history = "" THEN TrimSpace(latest)
    ELSE "Conversation so far:\n" \o history \o "\n\nLatest user request: " \o TrimSpace(latest)

getRecentHistoryForContext(history, n) ==
    IF history = "" THEN "" ELSE Join(LastN(Split(history, "\n\n"), n), "\n\n")

creationKeywords == <<"create", "make", "generate", "build", "new", "want to", "need to", "burn", "lock">>

isJustAnswer(lower) == Contains(lower, "yes") \/ Contains(lower, "no")
hasCreationIntent(lower, keyword) ==
    /\ Contains(lower, keyword)
    /\ \/ Contains(lower, "asset") \/ Contains(lower, "bond")
       \/ Contains(lower, "transaction") \/ Contains(lower, "gold")
       \/ Contains(lower, "token")
isNewLower(lower) ==
    \E i \in 1..Len(creationKeywords) :
        /\ Contains(lower, creationKeywords[i])
        /\ \/ hasCreationIntent(lower, creationKeywords[i])
           \/ (~isJustAnswer(lower) /\ NumFields(lower) > 2)
isNewCreationRequest(userInput, history) == isNewLower(ToLower(userInput))

\* The completeness decision hasAllInfo of ProcessMessage
hasAllSlots(queryInfo) ==
    /\ queryInfo.IsAsync # Nil
    /\ queryInfo.IsUMICompliant # Nil
    /\ queryInfo.IsPrivate # Nil
    /\ Len(queryInfo.FieldNames) > 0
withOperation(queryInfo, hasAll) ==
    IF queryInfo.UseCase # "" /\ queryInfo.Operation = "" THEN FALSE ELSE hasAll
\* withEventFields asking for event fields whether or not the request is async
withEventFieldsAlways(queryInfo, hasAll) == hasAll /\ Len(queryInfo.EventFields) > 0
withEventFields(queryInfo, hasAll) ==
    IF queryInfo.IsAsync # Nil /\ queryInfo.IsAsync = True
    THEN hasAll /\ Len(queryInfo.EventFields) > 0
    ELSE hasAll
hasAllInfo(queryInfo) ==
    withEventFields(queryInfo, withOperation(queryInfo, hasAllSlots(queryInfo)))

RECURSIVE fieldLines(_, _)
fieldLines(fields, i) ==
    IF i > Len(fields) THEN ""
    ELSE " - " \o fields[i].Name \o " (" \o fields[i].Type \o "): " \o fields[i].Description \o "\n"
           \o fieldLines(fields, i + 1)

formatTrimmed(api, fields, samplePayload, eventPayload) ==
    TrimSpace("Recommended API:\n" \o " Name: " \o api.Name \o "\n Path: " \o api.Path
                \o "\n Method: " \o api.Method \o "\n Description: " \o api.Description \o "\n"
                \o (IF Len(fields) = 0 THEN "Suggested fields: not required\n"
                    ELSE "Suggested fields:\n" \o fieldLines(fields, 1))
                \o (IF samplePayload # "" THEN "Sample payload:\n" \o samplePayload \o "\n" ELSE "")
                \o (IF eventPayload # ""
                    THEN "\nEvent payload (for async requests):\n" \o eventPayload \o "\n" ELSE ""))
formatRecommendation(api, fields, samplePayload, eventPayload) ==
    formatTrimmed(api, fields, TrimSpace(samplePayload), TrimSpace(eventPayload))

\* One stored message of the chat history table
Row(session, type, content) == [session |-> session, type |-> type, content |-> content]

\* The messages of the table whatever their session
messagesOfAny(rows, session) == rows

\* The messages of a session, in the order they were recorded
RECURSIVE messagesOf(_, _)
messagesOf(rows, session) ==
    IF Len(rows) = 0 THEN <<>>
    ELSE (IF rows[1].session = session THEN <<rows[1]>> ELSE <<>>) \o messagesOf(Tail(rows), session)

\* sqlite3.DefaultLimit, the limit of a query that names none
DefaultLimit == 1000

roleFromMessageType(value) ==
    CASE value = "human" -> "user"
      [] value = "ai" -> "assistant"
      [] value = "system" -> "system"
      [] OTHER -> "assistant"

StoredMessage(role, content) == [Role |-> role, Content |-> content]

\* GetSessionMessages(ctx, sessionID, limit) over the table rows: the query
\* takes the session's rows by ascending time of creation and stops at the
\* limit
GetSessionMessages(rows, sessionID, limit) ==
    LET found == messagesOf(rows, TrimSpace(sessionID))
        most  == IF limit <= 0 THEN DefaultLimit ELSE limit
        n     == IF Len(found) < most THEN Len(found) ELSE most
    IN  IF TrimSpace(sessionID) = ""
        THEN [messages |-> <<>>, err |-> "session id is required"]
        ELSE [messages |-> [i \in 1..n |-> StoredMessage(roleFromMessageType(found[i].type),
                                                         found[i].content)],
              err |-> ""]

\* llms.GetBufferString(messages, "Human", "AI")
GetBufferString(messages) ==
    Join([i \in 1..Len(messages) |->
            (IF messages[i].type = "human" THEN "Human" ELSE "AI") \o ": " \o messages[i].content], "\n")

\* ------------------------------------------------------------------------
\* The state machine: ChatService.ProcessMessage, one call per session at a
\* time, in steps that end where the code waits for the generator.
\* ------------------------------------------------------------------------

Sessions == {"s1", "s2"}

\* The goroutines in which the server runs its handlers: net/http starts one
\* for each request, so that two requests are served at the same time
Handlers == {"h1", "h2"}

\* Whoever calls the service: the command line that holds one session and
\* passes its id, and the handlers that pass the id of the request
Callers == Sessions \cup Handlers \cup {"r1"}

\* The ids uuid.NewString may return
NewStrings == {"uuid-1", "uuid-2"}

\* Calls of ProcessMessage a run makes per session: in the dialogues, in the
\* runs that try every answer to the extraction prompt and in the runs that
\* try every answer to the classification prompt
MaxTurns == 2
GateTurns == 1
ClassifyTurns == 1

VARIABLES
    db,      \* the chat history table: the rows in the order they were inserted
    pc,      \* pc[s]: where the call of ProcessMessage for session s stands
    turns,   \* turns[s]: the calls of ProcessMessage begun for session s
    frame,   \* frame[s]: the local variables of the call
    ret,     \* ret[s]: what the last call returned: response, sessionID, err
    calls,   \* calls[s]: the components the call has invoked, in order
    llm,     \* llm[s]: the generator calls of the call: prompt and outcome, in order
    prev     \* prev[s]: of the session's preceding call, if it extracted a QueryInfo: its
             \* three flags and its completeness decision

vars == <<db, pc, turns, frame, ret, calls, llm, prev>>

noFrame ==
    [sessionID |-> "", trimmedSession |-> "",
     userInput |-> "", history |-> "", classifyErr |-> FALSE,
     isCreationRequest |-> FALSE, isRelevant |-> FALSE,
     isNewRequest |-> FALSE, recentHistory |-> "", queryInfo |-> emptyQueryInfo,
     extracted |-> FALSE, hasAllInfo |-> FALSE, prompt |-> "",
     chosen |-> noAPI, picked |-> <<>>, samplePayload |-> "", eventPayload |-> "",
     response |-> ""]

noRet  == [response |-> "", sessionID |-> "", err |-> ""]
noPrev == [valid |-> FALSE, IsAsync |-> Nil, IsUMICompliant |-> Nil, IsPrivate |-> Nil,
           hasAllInfo |-> FALSE, UseCase |-> "", Operation |-> "",
           FieldNames |-> <<>>, EventFields |-> <<>>]

Init ==
    /\ db = <<>>
    /\ pc = [s \in Callers |-> "idle"]
    /\ turns = [s \in Callers |-> 0]
    /\ frame = [s \in Callers |-> noFrame]
    /\ ret = [s \in Callers |-> noRet]
    /\ calls = [s \in Callers |-> <<>>]
    /\ llm = [s \in Callers |-> <<>>]
    /\ prev = [s \in Callers |-> noPrev]

\* A generator call is recorded when the code makes it
Called(s, made, prompt, gen) ==
    llm' = [llm EXCEPT ![s] = IF made THEN Append(@, [prompt |-> prompt, reply |-> gen]) ELSE @]

\* return response, trimmedSession, err
Return(s, response, err) ==
    /\ ret' = [ret EXCEPT ![s] = [response |-> response, sessionID |-> frame[s].trimmedSession,
                                  err |-> err]]
    /\ pc' = [pc EXCEPT ![s] = "idle"]

\* return "", sessionID, err: the returns before the history is loaded give
\* back the id as the caller passed it
ReturnGiven(s, sessionID, err) ==
    /\ ret' = [ret EXCEPT ![s] = [response |-> "", sessionID |-> sessionID, err |-> err]]
    /\ pc' = [pc EXCEPT ![s] = "idle"]

\* trimmedSession: the id trimmed, a new id when nothing is left of it; a new
\* id is one that no stored message and no call carries
trimmedSessions(sessionID) ==
    IF TrimSpace(sessionID) # "" THEN {TrimSpace(sessionID)}
    ELSE {id \in NewStrings : /\ \A k \in 1..Len(db) : db[k].session # id
                             /\ \A c \in Callers : frame[c].trimmedSession # id}

\* What a call leaves for the checks of the next one: the QueryInfo it
\* extracted and its completeness decision
carried(s) ==
    IF frame[s].extracted /\ ret[s].err = ""
    THEN [valid |-> TRUE, IsAsync |-> frame[s].queryInfo.IsAsync,
          IsUMICompliant |-> frame[s].queryInfo.IsUMICompliant,
          IsPrivate |-> frame[s].queryInfo.IsPrivate,
          hasAllInfo |-> frame[s].hasAllInfo,
          UseCase |-> frame[s].queryInfo.UseCase, Operation |-> frame[s].queryInfo.Operation,
          FieldNames |-> frame[s].queryInfo.FieldNames,
          EventFields |-> frame[s].queryInfo.EventFields]
    ELSE noPrev

\* ProcessMessage(ctx, sessionID, input), called by s, up to the call of
\* ClassifyQuery: the input is trimmed and refused when empty, the session id
\* is trimmed or made, the session's history is loaded.
Begin(s, sessionID, input, maxTurns) ==
    /\ pc[s] = "idle"
    /\ turns[s] < maxTurns
    /\ turns' = [turns EXCEPT ![s] = @ + 1]
    /\ calls' = [calls EXCEPT ![s] = <<>>]
    /\ llm' = [llm EXCEPT ![s] = <<>>]
    /\ prev' = [prev EXCEPT ![s] = carried(s)]
    /\ LET userInput == TrimSpace(input)
       IN  IF userInput = ""
           THEN /\ frame' = [frame EXCEPT ![s] = [noFrame EXCEPT !.sessionID = sessionID]]
                /\ ReturnGiven(s, sessionID, "empty user input")
           ELSE /\ \E trimmedSession \in trimmedSessions(sessionID) :
                      frame' = [frame EXCEPT ![s] =
                                  [noFrame EXCEPT !.sessionID = sessionID,
                                                  !.trimmedSession = trimmedSession,
                                                  !.userInput = userInput,
                                                  !.history = GetBufferString(messagesOf(db, trimmedSession))]]
                /\ pc' = [pc EXCEPT ![s] = "classify"]
                /\ UNCHANGED ret
    /\ UNCHANGED db

\* ProcessMessage when LoadMemoryVariables fails: the call returns the error
\* with the id as it was passed.
LoadFails(s, sessionID, input, maxTurns) ==
    /\ pc[s] = "idle"
    /\ turns[s] < maxTurns
    /\ TrimSpace(input) # ""
    /\ turns' = [turns EXCEPT ![s] = @ + 1]
    /\ calls' = [calls EXCEPT ![s] = <<>>]
    /\ llm' = [llm EXCEPT ![s] = <<>>]
    /\ prev' = [prev EXCEPT ![s] = carried(s)]
    /\ \E trimmedSession \in trimmedSessions(sessionID) :
          frame' = [frame EXCEPT ![s] =
                      [noFrame EXCEPT !.sessionID = sessionID,
                                      !.trimmedSession = trimmedSession,
                                      !.userInput = TrimSpace(input)]]
    /\ ReturnGiven(s, sessionID, "load history")
    /\ UNCHANGED db

\* ClassifyQuery and the branch on its results; for a creation request also
\* isNewCreationRequest and getRecentHistoryForContext, up to the generator
\* call of ExtractQueryInfo.
Classify(s, gen) ==
    /\ pc[s] = "classify"
    /\ LET f == frame[s]
           c == ClassifyQuery(f.userInput, f.history, gen)
           isCreationRequest == IF c.err THEN TRUE ELSE c.isCreation
           isRelevant == IF c.err THEN TRUE ELSE c.isRelevant
           isNewRequest == isNewCreationRequest(f.userInput, f.history)
           recentHistory == IF isNewRequest THEN getRecentHistoryForContext(f.history, 2)
                            ELSE getRecentHistoryForContext(f.history, 10)
       IN  /\ Called(s, c.called, c.prompt, gen)
           /\ IF ~isRelevant
              THEN /\ frame' = [frame EXCEPT ![s] = [f EXCEPT !.classifyErr = c.err,
                                                              !.isCreationRequest = isCreationRequest,
                                                              !.isRelevant = isRelevant,
                                                              !.response = redirectMessage]]
                   /\ calls' = [calls EXCEPT ![s] = @ \o <<"ClassifyQuery">>]
                   /\ pc' = [pc EXCEPT ![s] = "save"]
              ELSE IF ~isCreationRequest
              THEN /\ frame' = [frame EXCEPT ![s] = [f EXCEPT !.classifyErr = c.err,
                                                              !.isCreationRequest = isCreationRequest,
                                                              !.isRelevant = isRelevant]]
                   /\ calls' = [calls EXCEPT ![s] = @ \o <<"ClassifyQuery", "AnswerFieldQuestion">>]
                   /\ pc' = [pc EXCEPT ![s] = "answer"]
              ELSE /\ frame' = [frame EXCEPT ![s] = [f EXCEPT !.classifyErr = c.err,
                                                              !.isCreationRequest = isCreationRequest,
                                                              !.isRelevant = isRelevant,
                                                              !.isNewRequest = isNewRequest,
                                                              !.recentHistory = recentHistory]]
                   /\ calls' = [calls EXCEPT ![s] =
                                   @ \o <<"ClassifyQuery", "isNewCreationRequest", "ExtractQueryInfo">>]
                   /\ pc' = [pc EXCEPT ![s] = "extract"]
    /\ UNCHANGED <<db, turns, ret, prev>>

\* AnswerFieldQuestion and its error branch
Answer(s, gen) ==
    /\ pc[s] = "answer"
    /\ LET a == AnswerFieldQuestion(frame[s].userInput, gen)
       IN  /\ Called(s, a.called, a.prompt, gen)
           /\ IF a.err
              THEN /\ Return(s, "", "answer field question: " \o errLLM)
                   /\ UNCHANGED frame
              ELSE /\ frame' = [frame EXCEPT ![s].response = a.text]
                   /\ pc' = [pc EXCEPT ![s] = "save"]
                   /\ UNCHANGED ret
    /\ UNCHANGED <<db, turns, calls, prev>>

\* The branch of ProcessMessage on the completeness decision: the component
\* invoked next is recorded and the call goes on to its generator call.
Branch(s, f, e, complete) ==
    /\ frame' = [frame EXCEPT ![s] =
                    [f EXCEPT !.queryInfo = e.info, !.extracted = TRUE,
                              !.hasAllInfo = complete,
                              !.prompt = IF complete
                                         THEN composeConversationAwareRequest(f.recentHistory, f.userInput)
                                         ELSE ""]]
    /\ calls' = [calls EXCEPT ![s] =
                    Append(@, IF complete THEN "Recommend1" ELSE "GenerateFollowUpQuestions")]
    /\ pc' = [pc EXCEPT ![s] = IF complete THEN "pick" ELSE "followup"]
    /\ UNCHANGED ret

\* Decide with the decision kept from the session's preceding turn
DecideCached(s, gen, e) ==
    /\ Called(s, TRUE, e.prompt, gen)
    /\ IF e.err
       THEN /\ Return(s, "", "extract query info")
            /\ UNCHANGED <<frame, calls>>
       ELSE Branch(s, frame[s], e,
                   IF prev[s].valid THEN prev[s].hasAllInfo ELSE hasAllInfo(e.info))
\* The error branch after ExtractQueryInfo, the completeness decision on the
\* QueryInfo it returned and the branch on it
Decide(s, gen, e) ==
    /\ Called(s, TRUE, e.prompt, gen)
    /\ IF e.err
       THEN /\ Return(s, "", "extract query info")
            /\ UNCHANGED <<frame, calls>>
       ELSE Branch(s, frame[s], e, hasAllInfo(e.info))

\* ExtractQueryInfo from its generator call on, the completeness decision and
\* the branch on it, up to the generator call of GenerateFollowUpQuestions or
\* the first generator call of Recommend1.
Extract(s, gen) ==
    /\ pc[s] = "extract"
    /\ \E usecase \in usecaseOutcomes(frame[s].userInput,
                                      contextToUse(frame[s].recentHistory, frame[s].isNewRequest)) :
          Decide(s, gen, ExtractQueryInfo(frame[s].userInput, frame[s].recentHistory, gen,
                                          frame[s].isNewRequest, usecase))
    /\ UNCHANGED <<db, turns, prev>>

\* GenerateFollowUpQuestions and its error branch
FollowUp(s, gen) ==
    /\ pc[s] = "followup"
    /\ LET q == GenerateFollowUpQuestions(frame[s].queryInfo, gen)
       IN  /\ Called(s, q.called, q.prompt, gen)
           /\ IF q.err
              THEN /\ Return(s, "", "generate follow-up questions")
                   /\ UNCHANGED frame
              ELSE /\ frame' = [frame EXCEPT ![s].response = q.text]
                   /\ pc' = [pc EXCEPT ![s] = "save"]
                   /\ UNCHANGED ret
    /\ UNCHANGED <<db, turns, calls, prev>>

\* Pick calling the generator again when the API-selection call has failed
PickAgain(s, gen) ==
    /\ pc[s] = "pick"
    /\ LET f == frame[s]
           r == selectAPI(apis, gen)
       IN  /\ Called(s, TRUE, Prompt("pick", enhancedUserRequest(f.prompt, f.queryInfo), ""), gen)
           /\ IF gen.err
              THEN UNCHANGED <<frame, pc, ret>>
              ELSE IF r.err # ""
              THEN /\ Return(s, "", r.err)
                   /\ UNCHANGED frame
              ELSE /\ frame' = [frame EXCEPT ![s].chosen = apis[r.index + 1]]
                   /\ pc' = [pc EXCEPT ![s] = "fields"]
                   /\ UNCHANGED ret
    /\ UNCHANGED <<db, turns, calls, prev>>
\* Recommend1: the API-selection call and the validation of its answer
Pick(s, gen) ==
    /\ pc[s] = "pick"
    /\ LET f == frame[s]
           r == selectAPI(apis, gen)
       IN  /\ Called(s, TRUE, Prompt("pick", enhancedUserRequest(f.prompt, f.queryInfo), ""), gen)
           /\ IF r.err # ""
              THEN /\ Return(s, "", r.err)
                   /\ UNCHANGED frame
              ELSE /\ frame' = [frame EXCEPT ![s].chosen = apis[r.index + 1]]
                   /\ pc' = [pc EXCEPT ![s] = "fields"]
                   /\ UNCHANGED ret
    /\ UNCHANGED <<db, turns, calls, prev>>

\* Recommend1: the field-selection call
Fields(s, gen) ==
    /\ pc[s] = "fields"
    /\ LET f == frame[s]
           r == selectFields(f.chosen, gen)
       IN  /\ Called(s, TRUE, Prompt("fields", f.prompt, f.chosen.Name), gen)
           /\ IF r.err # ""
              THEN /\ Return(s, "", r.err)
                   /\ UNCHANGED frame
              ELSE /\ frame' = [frame EXCEPT ![s].picked = r.picked]
                   /\ pc' = [pc EXCEPT ![s] = "payload"]
                   /\ UNCHANGED ret
    /\ UNCHANGED <<db, turns, calls, prev>>

\* Recommend1: the request-payload call; without an event payload to make,
\* Recommend1 returns and the recommendation is rendered.
Payload(s, gen) ==
    /\ pc[s] = "payload"
    /\ LET f == frame[s]
           samplePayload == TrimSpace(gen.text)
       IN  /\ Called(s, TRUE, Prompt("payload", f.prompt, Join(f.queryInfo.FieldNames, ", ")), gen)
           /\ IF gen.err
              THEN /\ Return(s, "", errLLM)
                   /\ UNCHANGED frame
              ELSE IF wantsEventPayload(f.queryInfo)
              THEN /\ frame' = [frame EXCEPT ![s].samplePayload = samplePayload]
                   /\ pc' = [pc EXCEPT ![s] = "event"]
                   /\ UNCHANGED ret
              ELSE /\ frame' = [frame EXCEPT ![s] =
                                  [f EXCEPT !.samplePayload = samplePayload,
                                            !.response = formatRecommendation(f.chosen, f.picked, samplePayload, "")]]
                   /\ pc' = [pc EXCEPT ![s] = "save"]
                   /\ UNCHANGED ret
    /\ UNCHANGED <<db, turns, calls, prev>>

\* Event with a failed event-payload call ending the turn with the error
EventFatal(s, gen) ==
    /\ pc[s] = "event"
    /\ LET f == frame[s]
           eventPayload == TrimSpace(gen.text)
       IN  /\ Called(s, TRUE, Prompt("event", Join(f.queryInfo.EventFields, ", "), ""), gen)
           /\ IF gen.err
              THEN /\ Return(s, "", errLLM)
                   /\ UNCHANGED frame
              ELSE /\ frame' = [frame EXCEPT ![s] =
                                  [f EXCEPT !.eventPayload = eventPayload,
                                            !.response = formatRecommendation(f.chosen, f.picked, f.samplePayload, eventPayload)]]
                   /\ pc' = [pc EXCEPT ![s] = "save"]
                   /\ UNCHANGED ret
    /\ UNCHANGED <<db, turns, calls, prev>>

\* Recommend1: generateEventPayload, whose failure leaves the event payload
\* empty; Recommend1 returns and the recommendation is rendered.
Event(s, gen) ==
    /\ pc[s] = "event"
    /\ LET f == frame[s]
           eventPayload == IF gen.err THEN "" ELSE TrimSpace(gen.text)
       IN  /\ Called(s, TRUE, Prompt("event", Join(f.queryInfo.EventFields, ", "), ""), gen)
           /\ frame' = [frame EXCEPT ![s] =
                           [f EXCEPT !.eventPayload = eventPayload,
                                     !.response = formatRecommendation(f.chosen, f.picked, f.samplePayload, eventPayload)]]
           /\ pc' = [pc EXCEPT ![s] = "save"]
    /\ UNCHANGED <<db, turns, ret, calls, prev>>

\* conversationChain.Memory.SaveContext and the return of the response
Save(s) ==
    /\ pc[s] = "save"
    /\ db' = db \o <<Row(frame[s].trimmedSession, "human", frame[s].userInput),
                     Row(frame[s].trimmedSession, "ai", frame[s].response)>>
    /\ Return(s, frame[s].response, "")
    /\ UNCHANGED <<turns, frame, calls, llm, prev>>

\* SaveContext fails: it records the user's message and then the response,
\* one insert each, and stops at the insert that fails, so that nothing or
\* the user's message alone is stored; the call returns the error.
SaveFails(s, stored) ==
    /\ pc[s] = "save"
    /\ db' = db \o SubSeq(<<Row(frame[s].trimmedSession, "human", frame[s].userInput)>>, 1, stored)
    /\ Return(s, "", "save conversation")
    /\ UNCHANGED <<turns, frame, calls, llm, prev>>

\* ------------------------------------------------------------------------
\* Specifications: the same actions, under different inputs and generators
\* ------------------------------------------------------------------------

\* One step of the call for session s, the user's messages drawn from inputs
\* and the generator's outcomes from the sets of R, one set per kind of call
Step(s, inputs, R, maxTurns) ==
    \/ \E input \in inputs : Begin(s, s, input, maxTurns)
    \/ \E gen \in R.classify : Classify(s, gen)
    \/ \E gen \in R.answer   : Answer(s, gen)
    \/ \E gen \in R.extract  : Extract(s, gen)
    \/ \E gen \in R.followup : FollowUp(s, gen)
    \/ \E gen \in R.pick     : Pick(s, gen)
    \/ \E gen \in R.fields   : Fields(s, gen)
    \/ \E gen \in R.payload  : Payload(s, gen)
    \/ \E gen \in R.event    : Event(s, gen)
    \/ Save(s)

\* Free text of the generator: a question or an answer, a payload
SomeText    == GenText("  Could you tell me the missing details?\n")
SomePayload == GenText("{\"payload\": {}}\n")

\* The dialogue of one session over several turns
DialogueInputs ==
    {"create a gold bond", "private", "explain the id field", "buy a car", "  "}

DialogueReplies ==
    [classify |-> {GenFail, GenText(ClassifyDocs[2].text)},
     answer   |-> {SomeText},
     extract  |-> {GenFail} \cup {GenText(FewExtractDocs[i].text) : i \in 1..Len(FewExtractDocs)},
     followup |-> {SomeText},
     pick     |-> {GenText(ApiIndexDoc(1).text), GenText(ApiIndexDoc(999).text)},
     fields   |-> {GenText(FieldIndexDoc(<<0, 7, -1, 1>>).text)},
     payload  |-> {SomePayload},
     event    |-> {GenFail, SomePayload}]

Next == Step("s1", DialogueInputs, DialogueReplies, MaxTurns)

Spec == Init /\ [][Next]_vars

\* One turn under every answer to the extraction prompt: the utterance is a
\* short reply in which the fallback heuristics find nothing, so the QueryInfo
\* of the turn is the one the answer reports.
GateInputs == {"go ahead", "what is umi"}

GateReplies ==
    [classify |-> {GenFail},
     answer   |-> {SomeText},
     extract  |-> {GenText(tx) : tx \in DocTexts(AllExtractDocs)},
     followup |-> {SomeText},
     pick     |-> {GenText(ApiIndexDoc(0).text)},
     fields   |-> {GenText(FieldIndexDoc(<<1, 0>>).text)},
     payload  |-> {SomePayload},
     event    |-> {SomePayload}]

NextGate == Step("s1", GateInputs, GateReplies, GateTurns)

SpecGate == Init /\ [][NextGate]_vars

\* The classifier under every answer to the classification prompt, bare and
\* wrapped, over utterances of each kind: off-topic, explanation, creation,
\* short reply, long sentence without a creation verb.
ClassifyInputs ==
    {"explain the id field", "What does async mean?", "tell me about the car payload",
     "describe how to buy a car", "meaning of umi", "create a gold bond",
     "purchase a lamborghini", "id and value", "please set it up for the team",
     "buy a bond"}

ClassifyReplies ==
    [classify |-> RepliesOver(ClassifyDocs),
     answer   |-> {GenFail, SomeText},
     extract  |-> {GenText(FewExtractDocs[1].text), GenText(FewExtractDocs[4].text)},
     followup |-> {SomeText},
     pick     |-> {GenText(ApiIndexDoc(1).text)},
     fields   |-> {GenText(FieldIndexDoc(<<0>>).text)},
     payload  |-> {SomePayload},
     event    |-> {SomePayload}]

NextClassify == Step("s1", ClassifyInputs, ClassifyReplies, ClassifyTurns)

SpecClassify == Init /\ [][NextClassify]_vars

\* The new-request detector over utterances of each kind: short and long,
\* with and without a creation keyword, a domain noun, a yes/no
DetectTurns == 2

DetectInputs ==
    {"yes", "create bond", "make it", "please make it quick", "yes create a token",
     "I want to create an asset", "the bond is private", "id and value",
     "build it now please"}

DetectReplies ==
    [classify |-> {GenFail, GenText(ClassifyDocs[1].text)},
     answer   |-> {SomeText},
     extract  |-> {GenFail} \cup {GenText(FewExtractDocs[i].text) : i \in {2, 4}},
     followup |-> {SomeText},
     pick     |-> {GenText(ApiIndexDoc(1).text)},
     fields   |-> {GenText(FieldIndexDoc(<<0>>).text)},
     payload  |-> {SomePayload},
     event    |-> {SomePayload}]

NextDetect == Step("s1", DetectInputs, DetectReplies, DetectTurns)

SpecDetect == Init /\ [][NextDetect]_vars

\* The slot extractor over utterances in which the fallback heuristics find
\* slots, alone and after an earlier turn: the extraction call fails, answers
\* without JSON, with a member of the wrong type, with nothing found, with one
\* flag only, with everything.
ExtractTurns == 2

ExtractInputs == {"private async", "yes", "what is umi"}

ExtractReplies ==
    [classify |-> {GenFail},
     answer   |-> {SomeText},
     extract  |-> {GenFail, GenText("I am sorry, I cannot do that."),
                   GenText(OddExtractDocs[2].text)}
                    \cup {GenText(FewExtractDocs[i].text) : i \in {1, 2, 4, 5}},
     followup |-> {SomeText},
     pick     |-> {GenText(ApiIndexDoc(1).text)},
     fields   |-> {GenText(FieldIndexDoc(<<0>>).text)},
     payload  |-> {SomePayload},
     event    |-> {SomePayload}]

NextExtract == Step("s1", ExtractInputs, ExtractReplies, ExtractTurns)

SpecExtract == Init /\ [][NextExtract]_vars

\* The recommendation engine under every kind of answer to its four generator
\* calls, for complete requests: synchronous, synchronous with event fields
\* named, asynchronous with event fields.
RecommendTurns == 1

RecommendInputs == {"go ahead", "what is umi"}

SyncWithEventFields == ExtractDoc(<<"", "", "false", "true", "true", <<"id">>, <<"eventType">>>>)

RecommendReplies ==
    [classify |-> {GenFail},
     answer   |-> {SomeText},
     extract  |-> {GenText(FewExtractDocs[i].text) : i \in {1, 2, 4}}
                    \cup {GenText(SyncWithEventFields.text)},
     followup |-> {SomeText},
     pick     |-> {GenFail, GenText("I am sorry, I cannot do that."),
                   GenText("{\"api_index\": \"first\"}")}
                    \cup {GenText(ApiIndexDoc(ApiIndexChoices[i]).text) : i \in 1..Len(ApiIndexChoices)},
     fields   |-> {GenFail, GenText("I am sorry, I cannot do that.")}
                    \cup {GenText(FieldIndexDoc(FieldIndexChoices[i]).text) : i \in 1..Len(FieldIndexChoices)},
     payload  |-> {GenFail, SomePayload},
     event    |-> {GenFail, SomePayload}]

NextRecommend == Step("s1", RecommendInputs, RecommendReplies, RecommendTurns)

SpecRecommend == Init /\ [][NextRecommend]_vars

\* The follow-up composer under every answer to the extraction prompt, its own
\* generator call failing or answering
FollowUpTurns == 1

FollowUpReplies ==
    [classify |-> {GenFail},
     answer   |-> {SomeText},
     extract  |-> {GenText(tx) : tx \in DocTexts(AllExtractDocs)},
     followup |-> {GenFail, SomeText},
     pick     |-> {GenText(ApiIndexDoc(2).text)},
     fields   |-> {GenText(FieldIndexDoc(<<0>>).text)},
     payload  |-> {SomePayload},
     event    |-> {SomePayload}]

NextFollowUp == Step("s1", GateInputs, FollowUpReplies, FollowUpTurns)

SpecFollowUp == Init /\ [][NextFollowUp]_vars

\* The dialogue about a gold bond: the request, the operation, the four
\* answers in one message, with the generator failing or answering
ScenarioTurns == 3

ScenarioInputs ==
    {"create gold bond", "create", "async yes, umi yes, private, field id", "what is umi"}

ScenarioReplies ==
    [classify |-> {GenFail},
     answer   |-> {SomeText},
     extract  |-> {GenFail} \cup {GenText(FewExtractDocs[i].text) : i \in {2, 4}},
     followup |-> {GenFail},
     pick     |-> {GenText(ApiIndexDoc(1).text)},
     fields   |-> {GenText(FieldIndexDoc(<<0>>).text)},
     payload  |-> {SomePayload},
     event    |-> {SomePayload}]

NextScenario == Step("s1", ScenarioInputs, ScenarioReplies, ScenarioTurns)

SpecScenario == Init /\ [][NextScenario]_vars

\* One step of the /api/chat handler h of runServer: it decodes the request
\* and calls ProcessMessage with the session id and the message of the
\* request; the database may fail under the call when it loads the history
\* and when it saves the turn.
Chat(h, ids, inputs, R, maxTurns) ==
    \/ \E sessionID \in ids, input \in inputs : Begin(h, sessionID, input, maxTurns)
    \/ \E sessionID \in ids, input \in inputs : LoadFails(h, sessionID, input, maxTurns)
    \/ \E gen \in R.classify : Classify(h, gen)
    \/ \E gen \in R.answer   : Answer(h, gen)
    \/ \E gen \in R.extract  : Extract(h, gen)
    \/ \E gen \in R.followup : FollowUp(h, gen)
    \/ \E gen \in R.pick     : Pick(h, gen)
    \/ \E gen \in R.fields   : Fields(h, gen)
    \/ \E gen \in R.payload  : Payload(h, gen)
    \/ \E gen \in R.event    : Event(h, gen)
    \/ Save(h)
    \/ \E stored \in {0, 1} : SaveFails(h, stored)

\* The /api/sessions/{id}/messages handler r of runServer: it calls
\* GetSessionMessages with the id of the path and the limit of the query
Messages(r, sessionID, limit) ==
    /\ pc[r] = "idle"
    /\ ret' = [ret EXCEPT ![r] = GetSessionMessages(db, sessionID, limit)]
    /\ UNCHANGED <<db, pc, turns, frame, calls, llm, prev>>

\* The server: two requests to /api/chat served at the same time, each in its
\* goroutine, for the same session or for two, and the messages of a session
\* read with a limit
ServerTurns == 1

ServerIDs == {"s1", "s2"}

ServerLimits == {0, 1, 2}

ServerInputs == {"create a bond", "explain the id field"}

ServerReplies ==
    [classify |-> {GenFail},
     answer   |-> {SomeText},
     extract  |-> {GenFail, GenText(FewExtractDocs[2].text), GenText(FewExtractDocs[4].text)},
     followup |-> {GenFail},
     pick     |-> {GenText(ApiIndexDoc(1).text)},
     fields   |-> {GenText(FieldIndexDoc(<<0>>).text)},
     payload  |-> {SomePayload},
     event    |-> {SomePayload}]

NextServer ==
    \/ Chat("h1", ServerIDs, ServerInputs, ServerReplies, ServerTurns)
    \/ Chat("h2", ServerIDs, ServerInputs, ServerReplies, ServerTurns)
    \/ \E sessionID \in ServerIDs \cup {" "}, limit \in ServerLimits : Messages("r1", sessionID, limit)

SpecServer == Init /\ [][NextServer]_vars

\* The requests of one client, served one after the other, every generator
\* call failing or answering, the database failing or not: the session id
\* comes padded or blank, the message is a creation request, a field
\* question or blank.
PipelineTurns == 2

PipelineIDs == {" s1 ", ""}

PipelineInputs == {"create a bond", "explain the id field", "  "}

PipelineReplies ==
    [classify |-> {GenFail, GenText(ClassifyDocs[1].text)},
     answer   |-> {GenFail, SomeText},
     extract  |-> {GenFail} \cup {GenText(FewExtractDocs[i].text) : i \in {2, 4}},
     followup |-> {GenFail, SomeText},
     pick     |-> {GenFail, GenText(ApiIndexDoc(1).text)},
     fields   |-> {GenFail, GenText(FieldIndexDoc(<<0>>).text)},
     payload  |-> {GenFail, SomePayload},
     event    |-> {GenFail, SomePayload}]

NextPipeline == Chat("h1", PipelineIDs, PipelineInputs, PipelineReplies, PipelineTurns)

SpecPipeline == Init /\ [][NextPipeline]_vars

\* Two sessions, each with its own caller, their turns interleaved in every
\* way
SessionsTurns == 1

SessionsInputs == {"create a bond", "explain the id field"}

SessionsReplies ==
    [classify |-> {GenFail},
     answer   |-> {SomeText},
     extract  |-> {GenFail} \cup {GenText(FewExtractDocs[i].text) : i \in {2, 4}},
     followup |-> {SomeText},
     pick     |-> {GenText(ApiIndexDoc(1).text)},
     fields   |-> {GenText(FieldIndexDoc(<<0>>).text)},
     payload  |-> {SomePayload},
     event    |-> {SomePayload}]

NextSessions ==
    \/ Step("s1", SessionsInputs, SessionsReplies, SessionsTurns)
    \/ Step("s2", SessionsInputs, SessionsReplies, SessionsTurns)

SpecSessions == Init /\ [][NextSessions]_vars

\* The fallback's reading of async over first utterances that name it: bare,
\* with each negation marker, with a word that holds "no" before and after
\* the keyword, and as a field question
AsyncTurns == 1

AsyncInputs ==
    {"make it async", "create an asynchronous bond", "not async", "no async please",
     "async: no", "async=false", "async no", "create the async token now",
     "I do not want to build anything that is not sync, so async",
     "what is async"}

AsyncReplies ==
    [classify |-> {GenFail},
     answer   |-> {SomeText},
     extract  |-> {GenFail, GenText("I am sorry, I cannot do that.")}
                    \cup {GenText(FewExtractDocs[i].text) : i \in {2, 4}},
     followup |-> {GenFail, SomeText},
     pick     |-> {GenText(ApiIndexDoc(1).text)},
     fields   |-> {GenText(FieldIndexDoc(<<0>>).text)},
     payload  |-> {SomePayload},
     event    |-> {SomePayload}]

NextAsync == Step("s1", AsyncInputs, AsyncReplies, AsyncTurns)

SpecAsync == Init /\ [][NextAsync]_vars

\* Two turns of one session: a request the deterministic follow-up questions
\* answer, then the user's answers to them, read by the fallback
AnswersTurns == 2

AnswersInputs == {"create", "async yes, private", "yes private", "what is umi"}

AnswersReplies ==
    [classify |-> {GenFail, GenText(ClassifyDocs[1].text)},
     answer   |-> {SomeText},
     extract  |-> {GenFail} \cup {GenText(FewExtractDocs[i].text) : i \in {2, 4}},
     followup |-> {GenFail},
     pick     |-> {GenText(ApiIndexDoc(1).text)},
     fields   |-> {GenText(FieldIndexDoc(<<0>>).text)},
     payload  |-> {SomePayload},
     event    |-> {SomePayload}]

NextAnswers == Step("s1", AnswersInputs, AnswersReplies, AnswersTurns)

SpecAnswers == Init /\ [][NextAnswers]_vars

\* ------------------------------------------------------------------------
\* Properties
\* ------------------------------------------------------------------------

\* The turn of session s has passed ClassifyQuery
Classified(s) == Len(calls[s]) > 0

\* The turn of session s has invoked the component
Invoked(s, component) == \E i \in 1..Len(calls[s]) : calls[s][i] = component

\* How often the turn of session s has invoked the component
Invocations(s, component) == Cardinality({i \in 1..Len(calls[s]) : calls[s][i] = component})

\* The generator calls of a kind that the turn of session s has made
GeneratorCalls(s, kind) == {i \in 1..Len(llm[s]) : llm[s][i].prompt.kind = kind}

\* The turn of session s has returned a response
Responded(s) == Classified(s) /\ pc[s] = "idle" /\ ret[s].err = ""

\* The completeness formula: the three flags known, a request field named, an
\* operation with every usecase, event fields with every asynchronous request
complete(q) ==
    /\ q.IsAsync \in {True, False}
    /\ q.IsUMICompliant \in {True, False}
    /\ q.IsPrivate \in {True, False}
    /\ q.FieldNames # <<>>
    /\ (q.UseCase = "" \/ q.Operation # "")
    /\ (q.IsAsync # True \/ q.EventFields # <<>>)

\* C1: for every QueryInfo, the completeness decision of ProcessMessage is
\* the completeness formula: the three tri-state slots known, FieldNames
\* non-empty, UseCase unset or Operation set, IsAsync not True or EventFields
\* non-empty.
C1_GateIsFormula ==
    \A s \in Sessions :
        frame[s].extracted => (frame[s].hasAllInfo <=> complete(frame[s].queryInfo))

\* An asynchronous request of a usecase, complete with its event fields
C1_Witness ==
    /\ frame["s1"].extracted /\ frame["s1"].hasAllInfo
    /\ frame["s1"].queryInfo.IsAsync = True
    /\ frame["s1"].queryInfo.EventFields # <<>>
    /\ frame["s1"].queryInfo.UseCase # ""

\* C2: in a relevant creation turn exactly one of Recommend1 and
\* GenerateFollowUpQuestions is invoked: Recommend1 if and only if the
\* completeness formula holds of the QueryInfo extracted in that turn, the
\* follow-up composer if and only if it does not; no other turn invokes them.
C2_OneBranchByGate ==
    \A s \in Sessions :
        /\ (Invoked(s, "Recommend1") \/ Invoked(s, "GenerateFollowUpQuestions"))
              => frame[s].extracted /\ frame[s].isRelevant /\ frame[s].isCreationRequest
        /\ frame[s].extracted =>
              /\ Invoked(s, "Recommend1") <=> complete(frame[s].queryInfo)
              /\ Invoked(s, "GenerateFollowUpQuestions") <=> ~complete(frame[s].queryInfo)
              /\ Invocations(s, "Recommend1") + Invocations(s, "GenerateFollowUpQuestions") = 1
        /\ pc[s] \in {"pick", "fields", "payload", "event"} => Invoked(s, "Recommend1")
        /\ pc[s] = "followup" => Invoked(s, "GenerateFollowUpQuestions")
        /\ (GeneratorCalls(s, "pick") # {}) => Invoked(s, "Recommend1")
        /\ (GeneratorCalls(s, "followup") \cup GeneratorCalls(s, "operation") # {})
              => Invoked(s, "GenerateFollowUpQuestions")

\* A turn that recommends after a turn of the same session that asked
C2_Witness ==
    /\ prev["s1"].valid /\ ~prev["s1"].hasAllInfo
    /\ frame["s1"].extracted /\ complete(frame["s1"].queryInfo)
    /\ Invoked("s1", "Recommend1") /\ pc["s1"] = "pick"

\* The answer d to the extraction prompt reports member key as unknown
ReportsUnknown(d, key) == d.t = "object" /\ (key \notin DOMAIN d.v \/ d.v[key].t = "null")

\* The slot of the preceding turn is kept when the call reports it unknown
slotKept(known, now, call, key) ==
    (known # Nil /\ ~call.reply.err /\ ReportsUnknown(Decode(extractJSON(call.reply.text)), key))
        => now = known

\* C3: across the continuation turns of one creation request, a tri-state
\* slot that is True or False in the QueryInfo of a turn has the same value
\* in the QueryInfo of the next continuation turn when the extraction of that
\* turn reports the slot as unknown (null).
C3_SlotsKept ==
    \A s \in Sessions :
        \A i \in GeneratorCalls(s, "extract") :
            (/\ prev[s].valid /\ ~prev[s].hasAllInfo
             /\ frame[s].extracted /\ ~frame[s].isNewRequest)
            => /\ slotKept(prev[s].IsAsync, frame[s].queryInfo.IsAsync, llm[s][i], "is_async")
               /\ slotKept(prev[s].IsUMICompliant, frame[s].queryInfo.IsUMICompliant,
                           llm[s][i], "is_umi_compliant")
               /\ slotKept(prev[s].IsPrivate, frame[s].queryInfo.IsPrivate, llm[s][i], "is_private")

\* Histories a caller may supply
OtherHistories ==
    {"",
     "Human: create an asset\nAI: Is this request async? (yes/no)",
     "Human: build insurance usecase\nAI: Which operation?\n\nHuman: burn, async yes, umi yes, private, field id\nAI: Please provide event fields."}

\* What ExtractQueryInfo may return for a new request, given the history
newRequestOutcomes(userInput, history, gen) ==
    {ExtractQueryInfo(userInput, history, gen, TRUE, usecase).info :
        usecase \in usecaseOutcomes(userInput, contextToUse(history, TRUE))}

\* What the extraction of a new request comes to when its generator call
\* was call: the prompt carries no history, every history gives the same
\* outcomes, and the QueryInfo of the turn is among them.
newRequestIgnoresHistory(f, call) ==
    /\ call.prompt.context = ""
    /\ \A h \in OtherHistories \cup {f.history, f.recentHistory} :
          newRequestOutcomes(f.userInput, h, call.reply)
             = newRequestOutcomes(f.userInput, "", call.reply)
    /\ f.extracted => f.queryInfo \in newRequestOutcomes(f.userInput, "", call.reply)

\* C4: when isNewRequest is true, the QueryInfo that ExtractQueryInfo returns
\* is the same for every history, the utterance and the generator's outcome
\* being the same: the prompt holds no history text and the fallback
\* heuristics read none.
C4_NewRequestIgnoresHistory ==
    \A s \in Sessions :
        \A i \in GeneratorCalls(s, "extract") :
            frame[s].isNewRequest => newRequestIgnoresHistory(frame[s], llm[s][i])

\* A new request extracted in a session that has a history
C4_Witness ==
    /\ frame["s1"].isNewRequest /\ frame["s1"].extracted
    /\ frame["s1"].recentHistory # "" /\ GeneratorCalls("s1", "extract") # {}

\* The members of a list
Members(list) == {list[i] : i \in 1..Len(list)}

\* C5: FieldNames and EventFields of the QueryInfo that ExtractQueryInfo
\* returns have no member in common.
C5_FieldsDisjoint ==
    \A s \in Sessions :
        frame[s].extracted
            => Members(frame[s].queryInfo.FieldNames) \cap Members(frame[s].queryInfo.EventFields) = {}

\* The explanation phrases, the off-topic lexicon, the domain lexicon and the
\* creation verbs
explanationPhrases ==
    {"explain", "what is", "what does", "tell me about", "how does", "describe", "meaning of"}
offTopicLexicon == {"buy", "purchase", "sell", "lamborghini", "lamborgini", "car", "vehicle", "shopping"}
domainLexicon   == {"asset", "bond", "token", "transaction", "api", "payload"}
creationVerbs   == {"create", "make", "generate", "build", "new", "want to", "need to", "burn", "lock"}

\* Some phrase of the set occurs in the utterance, in whatever case
Mentions(lower, phrases) == \E phrase \in phrases : Contains(lower, phrase)
MentionsAny(userInput, phrases) == Mentions(ToLower(userInput), phrases)

offTopic(userInput) ==
    MentionsAny(userInput, offTopicLexicon) /\ ~MentionsAny(userInput, domainLexicon)

\* C6: for an utterance that holds an explanation phrase and is not caught
\* by the irrelevance check, "explain the id field" among them, ClassifyQuery
\* returns (isCreation = false, isRelevant = true) and makes no generator call.
C6_ExplanationIsFieldQuestion ==
    \A s \in Sessions :
        (/\ Classified(s)
         /\ MentionsAny(frame[s].userInput, explanationPhrases)
         /\ ~offTopic(frame[s].userInput))
        => /\ ~frame[s].isCreationRequest /\ frame[s].isRelevant /\ ~frame[s].classifyErr
           /\ GeneratorCalls(s, "classify") = {}

\* "explain the id field" classified, on its way to the field answer
C6_Witness ==
    /\ frame["s1"].userInput = "explain the id field" /\ pc["s1"] = "answer"
    /\ ~frame["s1"].isCreationRequest /\ frame["s1"].isRelevant /\ llm["s1"] = <<>>

\* The field answer of a turn: the generator's text, trimmed, or one of the
\* answers the code holds
fieldAnswer(s, response) ==
    IF GeneratorCalls(s, "answer") # {}
    THEN \E i \in GeneratorCalls(s, "answer") : response = TrimSpace(llm[s][i].reply.text)
    ELSE response \in {answerUMICompliant, answerUMI, answerAsync}

\* The components of the slot pipeline
pipeline ==
    {"isNewCreationRequest", "ExtractQueryInfo", "GenerateFollowUpQuestions", "Recommend1"}

\* C7: an utterance of the off-topic lexicon without a domain term is
\* classified (false, false) without a generator call and answered with the
\* redirect message; a turn classified relevant and not creation is answered
\* with the field answer; neither turn invokes the new-request detector, the
\* slot extractor, the gate, the follow-up composer or the recommendation
\* engine.
C7_OnlyCreationTurnsEnterPipeline ==
    \A s \in Sessions :
        Classified(s) =>
            /\ offTopic(frame[s].userInput)
                  => ~frame[s].isRelevant /\ ~frame[s].isCreationRequest /\ llm[s] = <<>>
            /\ ~frame[s].isRelevant
                  => /\ frame[s].response = redirectMessage
                     /\ \A c \in pipeline : ~Invoked(s, c)
                     /\ ~Invoked(s, "AnswerFieldQuestion")
                     /\ ~frame[s].extracted /\ ~frame[s].hasAllInfo
                     /\ \A i \in 1..Len(llm[s]) : llm[s][i].prompt.kind = "classify"
                     /\ pc[s] \in {"save", "idle"}
                     /\ pc[s] = "idle" => ret[s] = [response |-> redirectMessage, sessionID |-> s, err |-> ""]
            /\ (frame[s].isRelevant /\ ~frame[s].isCreationRequest)
                  => /\ calls[s] = <<"ClassifyQuery", "AnswerFieldQuestion">>
                     /\ ~frame[s].extracted /\ ~frame[s].hasAllInfo
                     /\ \A i \in 1..Len(llm[s]) : llm[s][i].prompt.kind \in {"classify", "answer"}
                     /\ pc[s] \in {"answer", "save", "idle"}
                     /\ pc[s] = "save" => fieldAnswer(s, frame[s].response)
                     /\ Responded(s) => fieldAnswer(s, ret[s].response)

\* An off-topic utterance answered with the redirect message
C7_Witness ==
    /\ offTopic(frame["s1"].userInput) /\ pc["s1"] = "idle"
    /\ ret["s1"].response = redirectMessage /\ calls["s1"] = <<"ClassifyQuery">>
    /\ Len(db) = 2 /\ db[2].content = redirectMessage

\* The answer in text gives member key the boolean b
Says(d, key, b) ==
    /\ d.t = "object" /\ key \in DOMAIN d.v
    /\ d.v[key].t = "bool" /\ d.v[key].v = b
Said(text, key, b) == Says(Decode(extractJSON(text)), key, b)

\* json.Unmarshal finds no classification answer in the text
Unparsed(text) == UnmarshalClassify(extractJSON(text)).err

\* The answer d is a JSON object that gives both members as booleans
GivesBoth(d) ==
    /\ d.t = "object" /\ {"is_creation_request", "is_relevant"} \subseteq DOMAIN d.v
    /\ d.v["is_creation_request"].t = "bool" /\ d.v["is_relevant"].t = "bool"
AnswersInFull(text) == GivesBoth(Decode(extractJSON(text)))

IsObject(d) == d.t = "object"
AnswersObject(text) == IsObject(Decode(extractJSON(text)))

\* C10: for an utterance that passes the irrelevance check and an answer of
\* the generator that is parsed as a JSON object, ClassifyQuery returns
\* isRelevant = false only when the answer gives is_relevant as false; an
\* answer that omits is_relevant yields isRelevant = true.
C10_IrrelevantOnlyWhenSaid ==
    \A s \in Sessions :
        \A i \in GeneratorCalls(s, "classify") :
            (/\ Classified(s) /\ ~offTopic(frame[s].userInput)
             /\ ~llm[s][i].reply.err /\ ~Unparsed(llm[s][i].reply.text)
             /\ AnswersObject(llm[s][i].reply.text))
            => (~frame[s].isRelevant => Said(llm[s][i].reply.text, "is_relevant", FALSE))

\* The yes/no answers and the domain nouns of the new-request rule
yesNoAnswers == {"yes", "no"}
domainNouns  == {"asset", "bond", "transaction", "token", "gold"}
intentLexicon == {"create", "make", "generate", "build", "new", "want to", "need to", "burn", "lock"}

\* C11: for every utterance of at most 3 whitespace-separated tokens and every
\* history isNewCreationRequest returns false; "yes" is never a new request.
C11_ShortIsNeverNew ==
    \A s \in Sessions :
        (Invoked(s, "isNewCreationRequest") /\ NumFields(frame[s].userInput) <= 3)
        => ~frame[s].isNewRequest

\* C12: isNewCreationRequest returns true if and only if the utterance has a
\* creation-intent keyword and a domain noun and no yes/no answer.
C12_NewIffIntentAndNoun ==
    \A s \in Sessions :
        Invoked(s, "isNewCreationRequest")
        => (frame[s].isNewRequest
              <=> /\ MentionsAny(frame[s].userInput, intentLexicon)
                  /\ MentionsAny(frame[s].userInput, domainNouns)
                  /\ ~MentionsAny(frame[s].userInput, yesNoAnswers))

\* The answer in text is a JSON object whose member key is a number, an array
NumberOf(text, key) == Decode(extractJSON(text)).v[key].v
GivesNumber(text, key) ==
    /\ IsObject(Decode(extractJSON(text))) /\ key \in DOMAIN Decode(extractJSON(text)).v
    /\ Decode(extractJSON(text)).v[key].t = "number"

\* The generator calls that follow API selection in Recommend1
LaterCalls(s) ==
    GeneratorCalls(s, "fields") \cup GeneratorCalls(s, "payload") \cup GeneratorCalls(s, "event")

\* The answer to the API-selection prompt names an index outside the catalog
IndexOutOfRange(text) ==
    /\ GivesNumber(text, "api_index")
    /\ (NumberOf(text, "api_index") < 0 \/ NumberOf(text, "api_index") >= Len(apis))

\* C13: when the api_index of the API-selection answer is below 0 or at least
\* len(catalog), Recommend1 returns an error with no API, no fields and no
\* payload, makes no later generator call in the turn, and ProcessMessage
\* returns the error with an empty response text, nothing being stored.
C13_IndexOutOfRangeIsFatal ==
    \A s \in Sessions :
        \A i \in GeneratorCalls(s, "pick") :
            (~llm[s][i].reply.err /\ IndexOutOfRange(llm[s][i].reply.text))
            => /\ pc[s] = "idle"
               /\ ret[s].err = "api_index out of range" /\ ret[s].response = ""
               /\ LaterCalls(s) = {}
               /\ frame[s].chosen = noAPI /\ frame[s].picked = <<>>
               /\ frame[s].samplePayload = "" /\ frame[s].response = ""
               /\ Len(messagesOf(db, s)) <= 2 * (turns[s] - 1)

\* api_index 999 against the catalog of three: the turn ended with the error
C13_Witness ==
    /\ Len(llm["s1"]) > 0 /\ llm["s1"][Len(llm["s1"])].prompt.kind = "pick"
    /\ llm["s1"][Len(llm["s1"])].reply = GenText(ApiIndexDoc(999).text)
    /\ Len(apis) = 3
    /\ pc["s1"] = "idle" /\ ret["s1"].err = "api_index out of range" /\ ret["s1"].response = ""

\* The answer in text is a JSON object whose member key is an array of numbers
GivesNumbers(text, key) ==
    /\ IsObject(Decode(extractJSON(text))) /\ key \in DOMAIN Decode(extractJSON(text)).v
    /\ Decode(extractJSON(text)).v[key].t = "array"
    /\ \A k \in 1..Len(Decode(extractJSON(text)).v[key].v) :
          Decode(extractJSON(text)).v[key].v[k].t = "number"
NumbersOf(text, key) ==
    [k \in 1..Len(Decode(extractJSON(text)).v[key].v) |-> Decode(extractJSON(text)).v[key].v[k].v]

\* The indices of list that lie within a list of n fields, in their order,
\* and the fields they stand for
IndicesWithin(list, n) == SelectSeq(list, LAMBDA k : k >= 0 /\ k < n)
FieldsAt(fields, indices) == [j \in 1..Len(indices) |-> fields[indices[j] + 1]]

\* The turn of session s went on to payload synthesis
ReachedPayload(s) == pc[s] = "payload" \/ GeneratorCalls(s, "payload") # {}

C15_OnlyRequestPayloadFailureIsFatal ==
    \A s \in Sessions :
        /\ \A i \in GeneratorCalls(s, "payload") :
              llm[s][i].reply.err
              => /\ pc[s] = "idle" /\ ret[s].err = errLLM /\ ret[s].response = ""
                 /\ GeneratorCalls(s, "event") = {}
                 /\ Len(messagesOf(db, s)) <= 2 * (turns[s] - 1)
        /\ \A i \in GeneratorCalls(s, "event") :
              llm[s][i].reply.err
              => /\ frame[s].chosen \in {apis[k] : k \in 1..Len(apis)}
                 /\ frame[s].eventPayload = ""
                 /\ \E j \in GeneratorCalls(s, "payload") :
                       /\ ~llm[s][j].reply.err
                       /\ frame[s].samplePayload = TrimSpace(llm[s][j].reply.text)
                 /\ frame[s].response
                      = formatRecommendation(frame[s].chosen, frame[s].picked, frame[s].samplePayload, "")
                 /\ \/ pc[s] = "save"
                    \/ pc[s] = "idle" /\ ret[s].err = "" /\ ret[s].response = frame[s].response

\* The event-payload call failed and the turn answered with a recommendation
\* that has the request payload and no event payload
C15_Witness ==
    /\ \E i \in GeneratorCalls("s1", "event") : llm["s1"][i].reply = GenFail
    /\ Responded("s1") /\ Len(db) = 2 /\ db[2].content = ret["s1"].response
    /\ Contains(ret["s1"].response, "Sample payload:\n")
    /\ ~Contains(ret["s1"].response, "Event payload")

\* The request payload of the turn of session s has been made
PayloadMade(s) == \E j \in GeneratorCalls(s, "payload") : ~llm[s][j].reply.err

\* The turn of session s makes the event-payload call: it stands before the
\* call or has made it
EventCall(s) == pc[s] = "event" \/ GeneratorCalls(s, "event") # {}

eventSection == "Event payload (for async requests)"

\* C16: Recommend1 makes the event-payload call if and only if IsAsync is True
\* and EventFields is non-empty; when IsAsync is False or unknown no such call
\* is made, the event payload is empty and the rendered recommendation has no
\* event-payload section.
C16_EventPayloadOnlyWhenAsync ==
    \A s \in Sessions :
        /\ EventCall(s) => PayloadMade(s)
        /\ PayloadMade(s)
           => /\ EventCall(s) <=> (/\ frame[s].queryInfo.IsAsync = True
                                   /\ frame[s].queryInfo.EventFields # <<>>)
              /\ frame[s].queryInfo.IsAsync \in {False, Nil}
                 => /\ frame[s].eventPayload = ""
                    /\ frame[s].response # ""
                    /\ ~Contains(frame[s].response, eventSection)

\* A synchronous request that names event fields was answered with a
\* recommendation without an event section, no event-payload call made
C16_Witness ==
    /\ frame["s1"].queryInfo.IsAsync = False /\ frame["s1"].queryInfo.EventFields = <<"eventType">>
    /\ Responded("s1") /\ PayloadMade("s1") /\ GeneratorCalls("s1", "event") = {}
    /\ Contains(ret["s1"].response, "Sample payload:\n")
    /\ ~Contains(ret["s1"].response, eventSection)

\* The questions about the slots, as GenerateFollowUpQuestions words them
slotQuestions ==
    {"Is this request async?", "Is this UMI compliant?", "Is this private or public?",
     "field name for the REQUEST payload", "field name for the EVENT payload"}

\* The follow-up composer of the turn of session s has returned
FollowedUp(s) == Invoked(s, "GenerateFollowUpQuestions") /\ pc[s] # "followup"

\* C17: when UseCase is set and Operation is unset, GenerateFollowUpQuestions
\* asks for the operation only: its one generator call is the operation
\* prompt, which names the usecase and no slot; when the call fails, the
\* deterministic operation question (create, burn or trade) is the response,
\* without an item about async, UMI compliance, private/public, field names or
\* event fields, and no error is returned.
C17_OperationQuestionOnly ==
    \A s \in Sessions :
        (/\ FollowedUp(s)
         /\ frame[s].queryInfo.UseCase # "" /\ frame[s].queryInfo.Operation = "")
        => /\ GeneratorCalls(s, "followup") = {}
           /\ Cardinality(GeneratorCalls(s, "operation")) = 1
           /\ \A i \in GeneratorCalls(s, "operation") :
                 /\ llm[s][i].prompt.input = frame[s].queryInfo.UseCase
                 /\ llm[s][i].prompt.context = ""
                 /\ pc[s] = "idle" => ret[s].err = ""
                 /\ pc[s] \in {"save", "idle"}
                 /\ pc[s] = "idle" => ret[s].response = frame[s].response
                 /\ IF llm[s][i].reply.err
                    THEN /\ Contains(frame[s].response, "which operation do you want to perform?")
                         /\ Contains(frame[s].response, "Please specify: create, burn, or trade")
                         /\ Contains(frame[s].response, frame[s].queryInfo.UseCase)
                         /\ \A item \in slotQuestions : ~Contains(frame[s].response, item)
                    ELSE frame[s].response = TrimSpace(llm[s][i].reply.text)

\* A gold bond request without operation and with every slot missing: the
\* generator call failed and the operation question was returned
C17_Witness ==
    /\ frame["s1"].queryInfo.UseCase = "gold bond" /\ frame["s1"].queryInfo.Operation = ""
    /\ frame["s1"].queryInfo.IsAsync = Nil /\ frame["s1"].queryInfo.FieldNames = <<>>
    /\ \E i \in GeneratorCalls("s1", "operation") : llm["s1"][i].reply = GenFail
    /\ Responded("s1")
    /\ Contains(ret["s1"].response, "For gold bond usecase, which operation do you want to perform?")

\* The unmet conditions of the completeness gate other than the operation,
\* each with the words of the item that asks for it
unmetConditions(q) ==
    (IF q.IsAsync = Nil THEN {"Is this request async?"} ELSE {})
      \cup (IF q.IsUMICompliant = Nil THEN {"Is this UMI compliant?"} ELSE {})
      \cup (IF q.IsPrivate = Nil THEN {"Is this private or public?"} ELSE {})
      \cup (IF q.FieldNames = <<>> THEN {"field name for the REQUEST payload"} ELSE {})
      \cup (IF q.IsAsync = True /\ q.EventFields = <<>>
            THEN {"field name for the EVENT payload"} ELSE {})

\* The numbered list in text has exactly n items, and of the slot questions
\* exactly those of the set items
ListsExactly(text, items, n) ==
    /\ \A item \in slotQuestions : Contains(text, item) <=> item \in items
    /\ \A k \in 1..5 : Contains(text, ToString(k) \o ". ") <=> k <= n

\* C18: when the operation question does not apply, the list of missing items
\* of GenerateFollowUpQuestions has exactly one item for each unmet gate
\* condition and none for a met one, and the items go out together: one
\* generator call whose prompt lists them all, one response text, which on a
\* failed call is the one question that lists them all.
C18_OneItemPerUnmetCondition ==
    \A s \in Sessions :
        (/\ FollowedUp(s)
         /\ ~(frame[s].queryInfo.UseCase # "" /\ frame[s].queryInfo.Operation = ""))
        => /\ GeneratorCalls(s, "operation") = {}
           /\ Cardinality(GeneratorCalls(s, "followup")) = 1
           /\ unmetConditions(frame[s].queryInfo) # {}
           /\ \A i \in GeneratorCalls(s, "followup") :
                 /\ ListsExactly(llm[s][i].prompt.input, unmetConditions(frame[s].queryInfo),
                                 Cardinality(unmetConditions(frame[s].queryInfo)))
                 /\ pc[s] = "idle" => ret[s].err = ""
                 /\ IF llm[s][i].reply.err
                    THEN ListsExactly(frame[s].response, unmetConditions(frame[s].queryInfo),
                                      Cardinality(unmetConditions(frame[s].queryInfo)))
                    ELSE frame[s].response = TrimSpace(llm[s][i].reply.text)

\* IsAsync unknown, IsUMICompliant and IsPrivate True, FieldNames {id}: the
\* list holds the async item only, and so does the question returned when the
\* generator call fails
C18_Witness ==
    /\ frame["s1"].queryInfo
         = QueryInfo("", "", Nil, True, True, <<"id">>, <<>>)
    /\ \E i \in GeneratorCalls("s1", "followup") :
          /\ llm["s1"][i].reply = GenFail
          /\ llm["s1"][i].prompt.input = "1. Is this request async? (yes/no)\n"
    /\ Responded("s1")
    /\ ret["s1"].response
         = "To proceed with your request, I need the following information:\n1. Is this request async? (yes/no)\nPlease provide all of these details at once."

\* What json.Unmarshal makes of the answer to the extraction prompt
ParsedExtraction(call) == UnmarshalExtract(extractJSON(call.reply.text))

\* The extraction call failed or its response cannot be parsed
ExtractionFailed(call) == call.reply.err \/ ParsedExtraction(call).err

\* What the fallback heuristics compute from the utterance and the context of
\* the turn with frame f
fallbackOutcomes(f) ==
    {extractQueryInfoFallback(f.userInput, contextToUse(f.recentHistory, f.isNewRequest), usecase) :
        usecase \in usecaseOutcomes(f.userInput, contextToUse(f.recentHistory, f.isNewRequest))}

\* C19: ExtractQueryInfo never returns an error: ProcessMessage never takes
\* the error branch after it, and when the generator call fails or its
\* response cannot be parsed the QueryInfo of the turn is the one the fallback
\* heuristics compute from the same utterance and the same context.
C19_ExtractionFallsBack ==
    \A s \in Sessions :
        /\ ret[s].err # "extract query info"
        /\ \A i \in GeneratorCalls(s, "extract") :
              /\ frame[s].extracted
              /\ ExtractionFailed(llm[s][i]) => frame[s].queryInfo \in fallbackOutcomes(frame[s])

\* "yes" after a turn "private async": the extraction response has no JSON and
\* the QueryInfo has the flags the heuristics find in the context
C19_Witness ==
    /\ frame["s1"].userInput = "yes" /\ frame["s1"].recentHistory # ""
    /\ \E i \in GeneratorCalls("s1", "extract") :
          llm["s1"][i].reply = GenText("I am sorry, I cannot do that.")
    /\ frame["s1"].extracted
    /\ frame["s1"].queryInfo.IsPrivate = True /\ frame["s1"].queryInfo.IsAsync = True
    /\ Responded("s1")

\* The slots a fallback can fill, and whether a QueryInfo has the slot set
fillableSlots == {"IsAsync", "IsUMICompliant", "IsPrivate", "UseCase", "Operation"}
SlotSet(q, slot) == IF slot \in {"UseCase", "Operation"} THEN q[slot] # "" ELSE q[slot] # Nil
ProvidesSome(q) ==
    \/ \E slot \in fillableSlots : SlotSet(q, slot)
    \/ q.FieldNames # <<>> \/ q.EventFields # <<>>

\* C20: when the parsed extraction leaves one of IsAsync, IsUMICompliant,
\* IsPrivate, UseCase, Operation unset while it provides other fields,
\* ExtractQueryInfo fills that field with the fallback heuristic's value for
\* it, and every field the generator provided keeps the generator's value.
C20_PerFieldFallback ==
    \A s \in Sessions :
        \A i \in GeneratorCalls(s, "extract") :
            (/\ ~ExtractionFailed(llm[s][i])
             /\ ProvidesSome(ParsedExtraction(llm[s][i]).info))
            => \E fb \in fallbackOutcomes(frame[s]) :
                  \A slot \in fillableSlots :
                      frame[s].queryInfo[slot]
                        = IF SlotSet(ParsedExtraction(llm[s][i]).info, slot)
                          THEN ParsedExtraction(llm[s][i]).info[slot]
                          ELSE fb[slot]

\* C21: in a continuation turn of a request that the preceding turn left
\* incomplete, every field name and every event field of the preceding
\* turn's QueryInfo is in the QueryInfo of the turn, and a UseCase or an
\* Operation that the preceding turn had set is still set.
C21_FieldsAccumulate ==
    \A s \in Sessions :
        (/\ prev[s].valid /\ ~prev[s].hasAllInfo
         /\ frame[s].extracted /\ ~frame[s].isNewRequest)
        => /\ Members(prev[s].FieldNames) \subseteq Members(frame[s].queryInfo.FieldNames)
           /\ Members(prev[s].EventFields) \subseteq Members(frame[s].queryInfo.EventFields)
           /\ prev[s].UseCase # "" => frame[s].queryInfo.UseCase # ""
           /\ prev[s].Operation # "" => frame[s].queryInfo.Operation # ""

\* The turn of session s went by the keyword heuristics: its classification,
\* extraction and follow-up calls failed
Heuristic(s) ==
    \A i \in 1..Len(llm[s]) :
        llm[s][i].prompt.kind \in {"classify", "extract", "followup", "operation"} => llm[s][i].reply.err

\* What the user has said in the stored history of session s, oldest first
Utterances(s) ==
    [i \in 1..(Len(messagesOf(db, s)) \div 2) |-> messagesOf(db, s)[2 * i - 1].content]

\* C22: in one session, the turn "create gold bond" is answered with the
\* operation question; the next turn "create" with the question for async,
\* UMI compliance, private/public and the field names; the next turn "async
\* yes, umi yes, private, field id" with the request for event fields and not
\* with a recommendation.
C22_GoldBondDialogue ==
    \A s \in Sessions :
        (pc[s] = "idle" /\ ret[s].err = "" /\ turns[s] > 0 /\ Heuristic(s))
        => /\ Utterances(s) = <<"create gold bond">>
                => /\ Contains(ret[s].response, "which operation do you want to perform")
                   /\ \A item \in slotQuestions : ~Contains(ret[s].response, item)
           /\ Utterances(s) = <<"create gold bond", "create">>
                => ListsExactly(ret[s].response,
                                {"Is this request async?", "Is this UMI compliant?",
                                 "Is this private or public?", "field name for the REQUEST payload"}, 4)
           /\ Utterances(s) = <<"create gold bond", "create", "async yes, umi yes, private, field id">>
                => /\ Contains(ret[s].response, "field name for the EVENT payload")
                   /\ ~Contains(ret[s].response, "Recommended API")

\* The place of a generator call in the turn: the classification, then the
\* extraction or the answer to a field question, then the follow-up or the
\* API selection, then the field selection, the request payload, the event
\* payload
stepOf(kind) ==
    CASE kind = "classify" -> 1
      [] kind \in {"extract", "answer"} -> 2
      [] kind \in {"followup", "operation", "pick"} -> 3
      [] kind = "fields" -> 4
      [] kind = "payload" -> 5
      [] kind = "event" -> 6

\* The step whose call comes right before a call of the kind in Recommend1
stepBefore(kind) ==
    CASE kind = "fields" -> "pick" [] kind = "payload" -> "fields" [] kind = "event" -> "payload"

\* C23: the generator calls of a turn come in the order classification,
\* extraction, then the follow-up or else the API selection, the field
\* selection, the request payload and the event payload; no step calls the
\* generator twice in a turn, so a failed call is not repeated, and a call of
\* Recommend1 follows an answered call of the step before it.
C23_GeneratorCallsInOrder ==
    \A c \in Callers :
        /\ \A i, j \in 1..Len(llm[c]) :
              i < j => stepOf(llm[c][i].prompt.kind) < stepOf(llm[c][j].prompt.kind)
        /\ \A i \in 1..Len(llm[c]) :
              /\ llm[c][i].prompt.kind \in {"fields", "payload", "event"}
                    => /\ i > 1
                       /\ llm[c][i - 1].prompt.kind = stepBefore(llm[c][i].prompt.kind)
                       /\ ~llm[c][i - 1].reply.err
              /\ llm[c][i].prompt.kind \in {"followup", "operation", "pick"}
                    => i > 1 /\ llm[c][i - 1].prompt.kind = "extract"

\* A turn that has returned after calling the generator at each of the six
\* steps, the classification call and the event-payload call failing
C23_Witness ==
    /\ pc["h1"] = "idle" /\ ret["h1"].err = "" /\ Len(llm["h1"]) = 6
    /\ llm["h1"][1].prompt.kind = "classify" /\ llm["h1"][1].reply.err
    /\ llm["h1"][2].prompt.kind = "extract"
    /\ llm["h1"][6].prompt.kind = "event" /\ llm["h1"][6].reply.err

\* The rows of the table that carry the session id, oldest first
rowsOf(session) == SelectSeq(db, LAMBDA row : row.session = session)

\* The rows but the last n
butLast(rows, n) == SubSeq(rows, 1, Len(rows) - n)

\* C24: with the turns of two sessions interleaved, a turn works on the
\* history of its own session as if it ran alone: while it runs, the history
\* it loaded is its session's stored history, whatever the other session's
\* turn has stored meanwhile, and when it has returned its session's history
\* is the loaded one followed by its own utterance and response (by nothing
\* when it returned an error).
C24_SessionsAreIsolated ==
    \A s \in Sessions :
        turns[s] > 0 =>
            /\ (pc[s] # "idle" \/ ret[s].err # "")
                  => frame[s].history = GetBufferString(rowsOf(s))
            /\ (pc[s] = "idle" /\ ret[s].err = "")
                  => /\ Len(rowsOf(s)) >= 2
                     /\ frame[s].history = GetBufferString(butLast(rowsOf(s), 2))
                     /\ SubSeq(rowsOf(s), Len(rowsOf(s)) - 1, Len(rowsOf(s)))
                           = <<Row(s, "human", frame[s].userInput), Row(s, "ai", ret[s].response)>>

\* Both turns have returned, the turn of s2 having stored its messages while
\* the turn of s1, which stored its own after it, was running or yet to begin
C24_Witness ==
    /\ \A s \in Sessions : pc[s] = "idle" /\ turns[s] > 0 /\ ret[s].err = ""
    /\ Len(db) >= 4
    /\ db[1].session = "s2" /\ db[Len(db)].session = "s1"
    /\ frame["s1"].history = GetBufferString(butLast(rowsOf("s1"), 2))

\* The call of ProcessMessage by h is in flight
InFlight(h) == pc[h] # "idle"

\* C25: of the requests that arrive through the /api/chat handler, at most
\* one call of ProcessMessage per session id is in flight at any time, so
\* that no turn loads the history of a session between the load and the save
\* of another turn of that session.
C25_OneTurnPerSession ==
    \A g, h \in Handlers :
        (g # h /\ InFlight(g) /\ InFlight(h))
        => frame[g].trimmedSession # frame[h].trimmedSession

\* The last n of the rows
lastN(rows, n) == SubSeq(rows, Len(rows) - n + 1, Len(rows))

\* C26: for a session that holds more than N messages,
\* GetSessionMessages(session, N) returns the N messages recorded last, oldest
\* first.
C26_MostRecentMessages ==
    \A session \in ServerIDs, N \in ServerLimits \ {0} :
        Len(rowsOf(session)) > N
        => GetSessionMessages(db, session, N).messages
              = [i \in 1..N |-> StoredMessage(roleFromMessageType(lastN(rowsOf(session), N)[i].type),
                                              lastN(rowsOf(session), N)[i].content)]

\* The negation markers of async
asyncNegations == {"not async", "no async", "async: no", "async=false", "async no"}

\* The turn of session s took its QueryInfo from the fallback, which worked
\* without context
FellBackWithoutContext(s) ==
    /\ frame[s].extracted
    /\ contextToUse(frame[s].recentHistory, frame[s].isNewRequest) = ""
    /\ \E i \in GeneratorCalls(s, "extract") : ExtractionFailed(llm[s][i])

\* C27: on the fallback path with empty context, an utterance that holds
\* "async" or "asynchronous" resolves IsAsync to False when it holds one of
\* the negation markers and to True when it holds none.
C27_AsyncByMarker ==
    \A s \in Sessions :
        (/\ FellBackWithoutContext(s)
         /\ MentionsAny(frame[s].userInput, {"async", "asynchronous"}))
        => frame[s].queryInfo.IsAsync
              = IF MentionsAny(frame[s].userInput, asyncNegations) THEN False ELSE True

\* The turn of session s is a continuation turn on the fallback extraction
\* path whose context holds the deterministic follow-up questions
FellBackOnQuestions(s) ==
    /\ frame[s].extracted
    /\ ~frame[s].isNewRequest
    /\ \E i \in GeneratorCalls(s, "extract") : ExtractionFailed(llm[s][i])
    /\ Contains(frame[s].recentHistory, askAsync)
    /\ Contains(frame[s].recentHistory, askPrivate)

\* C28: on the fallback path of a continuation turn whose context holds the
\* deterministic follow-up questions, the user's answer "yes" gives IsAsync =
\* True and the user's answer "private" gives IsPrivate = True; the words
\* "no" and "public" of the question text do not decide them.
C28_AnswersDecide ==
    \A s \in Sessions :
        FellBackOnQuestions(s)
        => /\ (MentionsAny(frame[s].userInput, {"yes"})
               /\ ~MentionsAny(frame[s].userInput, {"no"}))
              => frame[s].queryInfo.IsAsync = True
           /\ (MentionsAny(frame[s].userInput, {"private"})
               /\ ~MentionsAny(frame[s].userInput, {"public"}))
              => frame[s].queryInfo.IsPrivate = True

\* C30: a call of ProcessMessage with a non-empty utterance returns the
\* effective session id of the turn, the trimmed id that was given or the
\* newly generated one, on success and on every error return.
C30_EffectiveSessionReturned ==
    \A h \in Handlers :
        (pc[h] = "idle" /\ turns[h] > 0 /\ frame[h].userInput # "")
        => ret[h].sessionID = frame[h].trimmedSession

\* The handlers whose call of ProcessMessage returns in the step
Returning == {h \in Handlers : pc'[h] = "idle" /\ (pc[h] # "idle" \/ turns'[h] # turns[h])}

\* C29: the calls of ProcessMessage being made one after the other, the
\* history grows only when a call returns and then by exactly the pair of
\* the call's utterance and response when it returns without error, and by
\* nothing when it returns an error; the history is so the concatenation in
\* call order of the pairs of the calls that returned without error.
C29_HistoryOfSuccessfulCalls ==
    [][IF Returning = {}
       THEN db' = db
       ELSE \A h \in Returning :
               db' = IF ret'[h].err = ""
                     THEN db \o <<Row(ret'[h].sessionID, "human", frame[h].userInput),
                                  Row(ret'[h].sessionID, "ai", ret'[h].response)>>
                     ELSE db]_vars

\* The returns other than the failure to save: a call that returns on an
\* empty input, on a failure to load the history or on the failure of a
\* generator call leaves the history as it was, and a call that returns
\* without error appends its pair.
ListedErrorsAppendNothing ==
    [][\A h \in Returning :
          /\ ret'[h].err = ""
             => db' = db \o <<Row(ret'[h].sessionID, "human", frame[h].userInput),
                              Row(ret'[h].sessionID, "ai", ret'[h].response)>>
          /\ ret'[h].err \notin {"", "save conversation"} => db' = db]_vars

====
